---- MODULE Spec2Model ----
(***************************************************************************)
(* Game engine of the Battlestar Galactica card game                       *)
(* (src/shared/src/index.ts): createGame, getValidActions, applyAction and *)
(* getPlayerView, over a small card registry and small decks.              *)
(*                                                                         *)
(* Conventions.  A CardInstance is a record; its instanceId "card-n" is    *)
(* the number n.  null / undefined are modelled by                         *)
(*   Null        for challenge,                                            *)
(*   NoInstance  for an instance id,                                       *)
(*   NoWinner    for winner,                                               *)
(*   Absent      for an optional index of an action.                       *)
(* Indices of actions are 0-based as in the code; sequences are 1-based.   *)
(* Math.random (shuffle) is a nondeterministic choice of a permutation, so *)
(* every operator that may shuffle yields a SET of outcomes.               *)
(* The log variable holds the entries one applyAction call returns (its    *)
(* local list log).  The field stateLog of a state record is               *)
(* GameState.log;                                                          *)
(* the engine only appends to it, and of the log of the whole game the     *)
(* model state keeps the entries of the last call.                         *)
(***************************************************************************)
EXTENDS Integers, Sequences, FiniteSets, TLC

\* ---------------------------------------------------------------- bounds
\* Ready phases are started only up to this turn.
MaxTurn == 2
\* At most this many applyAction calls are made on a game.
MaxActions == 16
\* The applyAction calls a room is followed for, and the decks submitted to it.
MaxRoomCalls == 6
MaxSubmits == 2
\* Calls of applyAction after which the human sends no further action of any kind.
MaxStrayCalls == 3
\* checkVictory is tried on influences this far beyond the loss and the win.
InfluenceSlack == 2
\* Out-of-turn and malformed actions use indices 0..MaxIndex.
MaxIndex == 1
\* Such actions are sent to games on which at most this many calls were made.
MaxStrayDepth == 10
\* The largest number of cards in a registry the deck rules are tried on.
MaxCards == 16

\* ------------------------------------------------------------- constants
WinInfluence == 20
LoseInfluence == 0
DrawPerTurn == 2
CylonGain == 2
PassesToEnd == 2
\* Deck rules: the smallest deck and the most copies of one card name.
MinDeckSize == 60
MaxCopies == 4
\* AI deck builder: the deck size, the unit slots, the copies added per name,
\* and twice the span of the random part of a score.
TARGET_SIZE == 60
TARGET_UNITS == 34
BuilderCopies == 4
RandomSpan == 4

PlayerIdx == {0, 1}
Null == [isNull |-> TRUE]
NoInstance == 0
NoWinner == -1
Absent == -1

\* ------------------------------------------------------- sequence helpers
RemoveAt(seq, i) == SubSeq(seq, 1, i - 1) \o SubSeq(seq, i + 1, Len(seq))

RECURSIVE Perms(_)
Perms(seq) ==
  IF Len(seq) <= 1 THEN {seq}
  ELSE UNION { { <<seq[i]>> \o t : t \in Perms(RemoveAt(seq, i)) } : i \in 1..Len(seq) }

RECURSIVE SumSeq(_)
SumSeq(seq) == IF seq = <<>> THEN 0 ELSE Head(seq) + SumSeq(Tail(seq))

RECURSIVE Flatten(_)
Flatten(seqs) == IF seqs = <<>> THEN <<>> ELSE Head(seqs) \o Flatten(Tail(seqs))

\* Lowest index i (1-based) with P(seq[i]), or 0.
FirstIndex(seq, P(_)) ==
  IF \E i \in 1..Len(seq) : P(seq[i])
  THEN CHOOSE i \in 1..Len(seq) : P(seq[i]) /\ \A j \in 1..(i - 1) : ~P(seq[j])
  ELSE 0

\* ------------------------------------------------------------ card data
NoCost == [persuasion |-> 0, logistics |-> 0, security |-> 0]
ResourceTypes == {"persuasion", "logistics", "security"}

\* A CardDef.  Absent strings are "", absent numbers 0 (the code reads them
\* with ?? 0), cost null is NoCost.  commit is abilityText.startsWith("Commit:");
\* resolveReq is what the pattern /Resolve:\s*(\d+)\s+(ship|personnel)/ finds in
\* abilityText: <<count, type>>, or <<>> when it does not match.
CardDefOf(title, subtitle, type, cost, power, cylonThreat, mysticValue, resource, abilityId, commit, resolveReq) ==
  [title |-> title, subtitle |-> subtitle, type |-> type, cost |-> cost,
   power |-> power, cylonThreat |-> cylonThreat, mysticValue |-> mysticValue,
   resource |-> resource, abilityId |-> abilityId, commit |-> commit,
   resolveReq |-> resolveReq]

cardRegistry ==
  [id \in {"viper-mk2", "raptor-227", "william-adama", "adama-admiral", "apollo-ace", "apollo-cag",
           "shuttle-diplomacy", "outmaneuvered", "condition-one", "press-junket", "fire-support"} |->
     CASE id = "viper-mk2" ->
            CardDefOf("Viper Mk II", "", "ship", NoCost, 3, 8, 2, "security", "", FALSE, <<>>)
       [] id = "raptor-227" ->
            CardDefOf("Raptor 227", "", "ship", NoCost, 1, 4, 1, "logistics", "", FALSE, <<>>)
       [] id = "william-adama" ->
            CardDefOf("William Adama", "Commander", "personnel", NoCost, 2, 8, 1, "security",
                      "adama-commit", TRUE, <<>>)
       [] id = "adama-admiral" ->
            CardDefOf("William Adama", "Admiral", "personnel", NoCost, 3, 0, 1, "security", "", FALSE, <<>>)
       [] id = "apollo-ace" ->
            CardDefOf("Apollo", "Ace Pilot", "personnel", NoCost, 2, 7, 2, "security", "", FALSE, <<>>)
       [] id = "apollo-cag" ->
            CardDefOf("Apollo", "CAG", "personnel", [NoCost EXCEPT !.security = 2], 3, 1, 1,
                      "security", "", FALSE, <<>>)
       [] id = "shuttle-diplomacy" ->
            CardDefOf("", "Shuttle Diplomacy", "event", NoCost, 0, 2, 1, "persuasion",
                      "shuttle-diplomacy", FALSE, <<>>)
       [] id = "outmaneuvered" ->
            CardDefOf("", "Outmaneuvered", "event", [NoCost EXCEPT !.persuasion = 1], 0, 0, 2,
                      "persuasion", "outmaneuvered", FALSE, <<>>)
       [] id = "condition-one" ->
            CardDefOf("", "Condition One", "event", NoCost, 0, 0, 2,
                      "security", "condition-one", FALSE, <<>>)
       [] id = "fire-support" ->
            CardDefOf("", "Fire Support", "event", NoCost, 0, 0, 0,
                      "logistics", "fire-support", FALSE, <<>>)
       [] id = "press-junket" ->
            CardDefOf("Press Junket", "", "mission", [NoCost EXCEPT !.persuasion = 1], 0, 0, 1,
                      "persuasion", "press-junket", FALSE, <<>>)]

\* The def getCardDef would have thrown for; never inspected by the code.
UnknownDef == CardDefOf("", "", "unknown", NoCost, 0, 0, 0, "", "", FALSE, <<>>)

bases ==
  [id \in {"galactica", "colonial-one"} |->
     IF id = "galactica"
     THEN [id |-> id, title |-> "Galactica", power |-> 4, startingInfluence |-> 18,
           handSize |-> 2, resource |-> "security", abilityId |-> "galactica-exhaust"]
     ELSE [id |-> id, title |-> "Colonial One", power |-> 3, startingInfluence |-> 1,
           handSize |-> 1, resource |-> "persuasion", abilityId |-> "colonial-one-exhaust"]]

KnownDef(defId) == defId \in DOMAIN cardRegistry
getCardDef(defId) == IF KnownDef(defId) THEN cardRegistry[defId] ELSE UnknownDef

isUnit(def) == def.type = "personnel" \/ def.type = "ship"
isMission(def) == def.type = "mission"
isSingular(def) == def.title # "" /\ def.subtitle # ""

\* ------------------------------------------------- working-state helpers
\* s is a GameState plus instanceCounter (the module-level counter), the log
\* list of the running applyAction call, and err: getCardDef has thrown.
Log(s, entry) == [s EXCEPT !.log = Append(@, entry)]
Throw(s) == [s EXCEPT !.err = TRUE]
\* getCardDef(defId) as a statement: throws on an unknown id.
Lookup(s, defId) == IF KnownDef(defId) THEN s ELSE Throw(s)

makeCardInstance(counter, defId) ==
  [instanceId |-> counter + 1, defId |-> defId, faceUp |-> TRUE]

TopCard(stack) == stack.cards[1]
AllStacks(player) == player.zones.alert \o player.zones.reserve

\* ------------------------------------------------------------ deck access
\* The deck of player i refilled from the discard pile when it is empty
\* (player.deck = [...player.discard]; shuffle(player.deck)).
Reshuffled(s, i) ==
  LET p == s.players[i] IN
  IF Len(p.deck) > 0 THEN {s}
  ELSE { Log([s EXCEPT !.players[i].deck = d, !.players[i].discard = <<>>], "reshuffled discard pile into deck")
         : d \in Perms(p.discard) }

RECURSIVE drawCards(_, _, _)
drawCards(s, i, count) ==
  IF count = 0 THEN {s}
  ELSE LET p == s.players[i] IN
       IF Len(p.deck) = 0 /\ Len(p.discard) = 0
       THEN {Log(s, "has no cards to draw")}
       ELSE UNION { drawCards([s2 EXCEPT !.players[i].hand = Append(@, Head(s2.players[i].deck)),
                                         !.players[i].deck = Tail(@)], i, count - 1)
                    : s2 \in Reshuffled(s, i) }

\* revealMysticValue with a stand-in card whose id no registry entry has.
revealMysticValueUnknownCard(s, i) ==
  LET p == s.players[i] IN
  IF Len(p.deck) = 0 /\ Len(p.discard) = 0
  THEN {[s |-> [s EXCEPT !.instanceCounter = @ + 1], value |-> 0,
         card |-> makeCardInstance(s.instanceCounter, "placeholder")]}
  ELSE { LET card == Head(s2.players[i].deck)
             s3 == Lookup(s2, card.defId)
         IN [s |-> Log([s3 EXCEPT !.players[i].deck = Tail(@),
                                  !.players[i].discard = Append(@, card)], "reveals mystic value"),
             value |-> getCardDef(card.defId).mysticValue,
             card |-> card]
         : s2 \in Reshuffled(s, i) }

\* Outcomes [s, value, card] of flipping the top card of player i's deck.
revealMysticValue(s, i) ==
  LET p == s.players[i] IN
  IF Len(p.deck) = 0 /\ Len(p.discard) = 0
  THEN {[s |-> [s EXCEPT !.instanceCounter = @ + 1], value |-> 0,
         card |-> makeCardInstance(s.instanceCounter, "condition-one")]}
  ELSE { LET card == Head(s2.players[i].deck)
             s3 == Lookup(s2, card.defId)
         IN [s |-> Log([s3 EXCEPT !.players[i].deck = Tail(@),
                                  !.players[i].discard = Append(@, card)], "reveals mystic value"),
             value |-> getCardDef(card.defId).mysticValue,
             card |-> card]
         : s2 \in Reshuffled(s, i) }

\* ------------------------------------------------------------- resources
stackResourceCount(stack) == 1 + Len(stack.supplyCards)

\* The produced type, "" for null.
getStackResourceTypeFromPlayer(stack) ==
  LET defId == stack.topCard.defId IN
  IF defId \in DOMAIN bases THEN bases[defId].resource
  ELSE IF KnownDef(defId) THEN cardRegistry[defId].resource ELSE ""

\* canAfford that finds every card affordable.
canAffordAnything(player, def) == TRUE

\* canAfford that counts the exhausted stacks too.
canAffordExhausted(player, def) ==
  \A resType \in ResourceTypes :
    LET stacks == player.zones.resourceStacks
        available == SumSeq([k \in 1..Len(stacks) |->
                       IF getStackResourceTypeFromPlayer(stacks[k]) = resType
                       THEN stackResourceCount(stacks[k]) ELSE 0])
    IN ~(available < def.cost[resType])

canAfford(player, def) ==
  \A resType \in ResourceTypes :
    LET stacks == player.zones.resourceStacks
        available == SumSeq([k \in 1..Len(stacks) |->
                       IF ~stacks[k].exhausted /\ getStackResourceTypeFromPlayer(stacks[k]) = resType
                       THEN stackResourceCount(stacks[k]) ELSE 0])
    IN ~(available < def.cost[resType])

\* The resource stacks after paying amount of resType, scanning from stack k.
RECURSIVE PayType(_, _, _, _)
PayType(stacks, resType, remaining, k) ==
  IF k > Len(stacks) \/ remaining <= 0 THEN stacks
  ELSE IF ~stacks[k].exhausted /\ getStackResourceTypeFromPlayer(stacks[k]) = resType
       THEN PayType([stacks EXCEPT ![k].exhausted = TRUE], resType,
                    remaining - stackResourceCount(stacks[k]), k + 1)
       ELSE PayType(stacks, resType, remaining, k + 1)

payResourceCost(s, i, cost) ==
  LET st0 == s.players[i].zones.resourceStacks
      st1 == PayType(st0, "persuasion", cost.persuasion, 1)
      st2 == PayType(st1, "logistics", cost.logistics, 1)
      st3 == PayType(st2, "security", cost.security, 1)
  IN [s EXCEPT !.players[i].zones.resourceStacks = st3]

\* ------------------------------------------------------------------ units
\* [zone, index] of the stack whose top card is instanceId; zone "" if none.
findUnitInAnyZone(player, instanceId) ==
  LET a == FirstIndex(player.zones.alert, LAMBDA st : TopCard(st).instanceId = instanceId)
      r == FirstIndex(player.zones.reserve, LAMBDA st : TopCard(st).instanceId = instanceId)
  IN IF a > 0 THEN [zone |-> "alert", index |-> a]
     ELSE IF r > 0 THEN [zone |-> "reserve", index |-> r]
     ELSE [zone |-> "", index |-> 0]

FoundStack(player, found) ==
  IF found.zone = "alert" THEN player.zones.alert[found.index]
  ELSE player.zones.reserve[found.index]

getUnitPower(stack) == getCardDef(TopCard(stack).defId).power

\* commitUnit that leaves the unit where it is.
commitUnitStaysAlert(s, i, instanceId) == s

commitUnit(s, i, instanceId) ==
  LET p == s.players[i]
      found == findUnitInAnyZone(p, instanceId)
  IN IF found.zone = "alert"
     THEN [s EXCEPT !.players[i].zones.alert = RemoveAt(@, found.index),
                    !.players[i].zones.reserve = Append(@, p.zones.alert[found.index])]
     ELSE s

defeatUnit(s, i, instanceId) ==
  LET p == s.players[i]
      found == findUnitInAnyZone(p, instanceId)
  IN IF found.zone = "" THEN s
     ELSE LET stack == FoundStack(p, found)
              s1 == Log(Lookup(s, TopCard(stack).defId), "is defeated")
          IN IF found.zone = "alert"
             THEN [s1 EXCEPT !.players[i].zones.alert = RemoveAt(@, found.index),
                             !.players[i].discard = @ \o stack.cards]
             ELSE [s1 EXCEPT !.players[i].zones.reserve = RemoveAt(@, found.index),
                             !.players[i].discard = @ \o stack.cards]

\* The defId of the first card with instanceId in any alert or reserve stack
\* (every card of a stack, not only its top), "" for null.
findCardDefIdByInstanceId(s, instanceId) ==
  LET stacks == AllStacks(s.players[0]) \o AllStacks(s.players[1])
      cards == Flatten([k \in 1..Len(stacks) |-> stacks[k].cards])
      idx == FirstIndex(cards, LAMBDA c : c.instanceId = instanceId)
  IN IF idx = 0 THEN "" ELSE cards[idx].defId

\* findOverlayTarget that never finds a stack to overlay.
findOverlayTargetNone(player, def) == [zone |-> "", index |-> 0]

\* The overlay target of def among player's stacks: alert first, then reserve.
findOverlayTarget(player, def) ==
  IF def.title = "" THEN [zone |-> "", index |-> 0]
  ELSE LET a == FirstIndex(player.zones.alert, LAMBDA st : getCardDef(TopCard(st).defId).title = def.title)
           r == FirstIndex(player.zones.reserve, LAMBDA st : getCardDef(TopCard(st).defId).title = def.title)
       IN IF a > 0 THEN [zone |-> "alert", index |-> a]
          ELSE IF r > 0 THEN [zone |-> "reserve", index |-> r]
          ELSE [zone |-> "", index |-> 0]

computeCylonThreatLevel(s) ==
  SumSeq([k \in 1..Len(AllStacks(s.players[0]) \o AllStacks(s.players[1])) |->
    LET top == TopCard((AllStacks(s.players[0]) \o AllStacks(s.players[1]))[k])
    IN IF top.faceUp THEN getCardDef(top.defId).cylonThreat ELSE 0])

\* The getCardDef calls of computeCylonThreatLevel, which throw on an unknown id.
LookupTops(s) ==
  LET stacks == AllStacks(s.players[0]) \o AllStacks(s.players[1])
  IN IF \A k \in 1..Len(stacks) : TopCard(stacks[k]).faceUp => KnownDef(TopCard(stacks[k]).defId)
     THEN s ELSE Throw(s)

determineFirstPlayer(s) ==
  IF s.players[0].influence < s.players[1].influence THEN 0
  ELSE IF s.players[1].influence < s.players[0].influence THEN 1
  ELSE s.firstPlayerIndex

\* ---------------------------------------------------------------- victory
\* A check that goes through the players from the last to the first.
checkVictoryFromLast(s) ==
  IF s.players[1].influence >= WinInfluence
  THEN Log([s EXCEPT !.phase = "gameOver", !.winner = 1], "wins")
  ELSE IF s.players[0].influence >= WinInfluence
  THEN Log([s EXCEPT !.phase = "gameOver", !.winner = 0], "wins")
  ELSE IF s.players[1].influence <= LoseInfluence
  THEN Log([s EXCEPT !.phase = "gameOver", !.winner = 0], "loses")
  ELSE IF s.players[0].influence <= LoseInfluence
  THEN Log([s EXCEPT !.phase = "gameOver", !.winner = 1], "loses")
  ELSE s

checkVictory(s) ==
  IF s.players[0].influence >= WinInfluence
  THEN Log([s EXCEPT !.phase = "gameOver", !.winner = 0], "wins")
  ELSE IF s.players[1].influence >= WinInfluence
  THEN Log([s EXCEPT !.phase = "gameOver", !.winner = 1], "wins")
  ELSE IF s.players[0].influence <= LoseInfluence
  THEN Log([s EXCEPT !.phase = "gameOver", !.winner = 1], "loses")
  ELSE IF s.players[1].influence <= LoseInfluence
  THEN Log([s EXCEPT !.phase = "gameOver", !.winner = 0], "loses")
  ELSE s

\* ---------------------------------------------------------------- effects
applyPowerBuff(s, targetInstanceId, amount) ==
  IF s.challenge = Null THEN s
  ELSE IF s.challenge.challengerInstanceId = targetInstanceId
  THEN Log([s EXCEPT !.challenge.challengerPowerBuff = @ + amount], "Challenger gets power")
  ELSE IF s.challenge.defenderInstanceId = targetInstanceId
  THEN Log([s EXCEPT !.challenge.defenderPowerBuff = @ + amount], "Defender gets power")
  ELSE s

resolveEventEffect(s, playerIndex, def, targetInstanceId) ==
  CASE def.abilityId = "fire-support" ->
         IF targetInstanceId # NoInstance
         THEN Log(applyPowerBuff(s, targetInstanceId, 2), "Fire Support") ELSE s
    [] def.abilityId = "shuttle-diplomacy" ->
         Log([s EXCEPT !.players[1 - playerIndex].influence = @ - 1], "Shuttle Diplomacy")
    [] def.abilityId = "condition-one" ->
         Log([s EXCEPT !.players[playerIndex].zones.alert = @ \o s.players[playerIndex].zones.reserve,
                       !.players[playerIndex].zones.reserve = <<>>], "Condition One")
    [] def.abilityId = "presidential-candidate" ->
         IF targetInstanceId # NoInstance
         THEN Log(applyPowerBuff(s, targetInstanceId, 1), "Presidential Candidate") ELSE s
    [] def.abilityId = "outmaneuvered" ->
         IF targetInstanceId # NoInstance
         THEN Log(applyPowerBuff(s, targetInstanceId, -2), "Outmaneuvered") ELSE s
    [] OTHER -> Log(s, "no special effect implemented")

resolveBaseAbility(s, playerIndex, baseDef) ==
  CASE baseDef.abilityId = "galactica-exhaust" ->
         Log([s EXCEPT !.players[1 - playerIndex].influence = @ - 1], "Galactica ability")
    [] baseDef.abilityId = "colonial-one-exhaust" ->
         Log([s EXCEPT !.players[playerIndex].influence = @ + 1], "Colonial One ability")
    [] OTHER -> s

resolveMissionEffect(s, playerIndex, def) ==
  CASE def.abilityId = "press-junket" ->
         {Log([s EXCEPT !.players[playerIndex].influence = @ + 2], "Press Junket")}
    [] def.abilityId = "investigation" ->
         {Log(s2, "Investigation") : s2 \in drawCards(s, playerIndex, DrawPerTurn)}
    [] OTHER -> {Log(s, "no special effect implemented")}

resetConsecutivePasses(s) ==
  [s EXCEPT !.players[0].consecutivePasses = 0, !.players[1].consecutivePasses = 0]

\* advanceExecutionTurn that leaves the turn with the same player.
advanceExecutionTurnStays(s) == s

advanceExecutionTurn(s) == [s EXCEPT !.activePlayerIndex = (@ + 1) % 2]
advanceCylonTurn(s) == [s EXCEPT !.activePlayerIndex = (@ + 1) % 2]
advanceChallengeEffectTurn(s) ==
  IF s.challenge = Null THEN s ELSE [s EXCEPT !.activePlayerIndex = (@ + 1) % 2]

\* ----------------------------------------------------- phase transitions
\* Steps 1 and 2 of the ready phase for one player.
\* Step 1 of the ready phase that leaves the reserve as it is.
ReadyPlayerNobody(s, i) == s

ReadyPlayer(s, i) ==
  LET p == s.players[i]
      toReady == SelectSeq(p.zones.reserve, LAMBDA st : TopCard(st).faceUp)
      remaining == SelectSeq(p.zones.reserve, LAMBDA st : ~TopCard(st).faceUp)
      s1 == [s EXCEPT !.players[i].zones.reserve = remaining,
                      !.players[i].zones.alert = @ \o toReady]
  IN IF Len(toReady) = 0 THEN s1
     ELSE Log(IF \A k \in 1..Len(toReady) : KnownDef(TopCard(toReady[k]).defId) THEN s1 ELSE Throw(s1),
              "readies")

Restore(stacks) == [k \in 1..Len(stacks) |-> [stacks[k] EXCEPT !.exhausted = FALSE]]

RestorePlayer(s, i) ==
  [s EXCEPT !.players[i].zones.resourceStacks = Restore(@),
            !.players[i].zones.alert = Restore(@),
            !.players[i].zones.reserve = Restore(@)]

\* startReadyPhase that does not count the turn.
startReadyPhaseSameTurn(s) ==
  LET s1 == [s EXCEPT !.phase = "ready"]
      s2 == [s1 EXCEPT !.firstPlayerIndex = determineFirstPlayer(s1)]
      s3 == Log([s2 EXCEPT !.activePlayerIndex = s2.firstPlayerIndex], "--- Turn ---")
      s4 == ReadyPlayer(ReadyPlayer(s3, 0), 1)
      s5 == RestorePlayer(RestorePlayer(s4, 0), 1)
  IN [s5 EXCEPT !.readyStep = 3, !.activePlayerIndex = s5.firstPlayerIndex]

startReadyPhase(s) ==
  LET s1 == [s EXCEPT !.turn = @ + 1, !.phase = "ready"]
      s2 == [s1 EXCEPT !.firstPlayerIndex = determineFirstPlayer(s1)]
      s3 == Log([s2 EXCEPT !.activePlayerIndex = s2.firstPlayerIndex], "--- Turn ---")
      s4 == ReadyPlayer(ReadyPlayer(s3, 0), 1)
      s5 == RestorePlayer(RestorePlayer(s4, 0), 1)
  IN [s5 EXCEPT !.readyStep = 3, !.activePlayerIndex = s5.firstPlayerIndex]

\* checkSetupComplete that is satisfied by one player having acted.
checkSetupCompleteAnyPlayer(s) ==
  IF \E i \in PlayerIdx : s.players[i].hasMulliganed
  THEN startReadyPhase(Log(s, "Both players ready. Starting Turn 1."))
  ELSE s

checkSetupComplete(s) ==
  IF \A i \in PlayerIdx : s.players[i].hasMulliganed
  THEN startReadyPhase(Log(s, "Both players ready. Starting Turn 1."))
  ELSE s

\* The turn stays with the player that has acted.
advanceReadyStep4Stay(s) ==
  IF \A i \in PlayerIdx : s.players[i].hasPlayedResource
  THEN Log([s EXCEPT !.readyStep = 5, !.activePlayerIndex = s.firstPlayerIndex],
           "Ready phase: reorder unit stacks.")
  ELSE s

\* Step 5 begins as soon as one player has acted.
advanceReadyStep4Early(s) ==
  IF \E i \in PlayerIdx : s.players[i].hasPlayedResource
  THEN Log([s EXCEPT !.readyStep = 5, !.activePlayerIndex = s.firstPlayerIndex],
           "Ready phase: reorder unit stacks.")
  ELSE [s EXCEPT !.activePlayerIndex = (@ + 1) % 2]

advanceReadyStep4(s) ==
  IF \A i \in PlayerIdx : s.players[i].hasPlayedResource
  THEN Log([s EXCEPT !.readyStep = 5, !.activePlayerIndex = s.firstPlayerIndex],
           "Ready phase: reorder unit stacks.")
  ELSE [s EXCEPT !.activePlayerIndex = (@ + 1) % 2]

startExecutionPhase(s) ==
  LET s1 == [s EXCEPT !.phase = "execution"]
      s2 == [s1 EXCEPT !.firstPlayerIndex = determineFirstPlayer(s1)]
  IN Log([s2 EXCEPT !.activePlayerIndex = s2.firstPlayerIndex,
                    !.players[0].consecutivePasses = 0,
                    !.players[0].hasResolvedMission = FALSE,
                    !.players[1].consecutivePasses = 0,
                    !.players[1].hasResolvedMission = FALSE], "Execution phase begins.")

advanceReadyStep5(s) ==
  IF (s.activePlayerIndex + 1) % 2 = s.firstPlayerIndex
  THEN startExecutionPhase(s)
  ELSE [s EXCEPT !.activePlayerIndex = (s.activePlayerIndex + 1) % 2]

\* The cards of the threats owned by player i, in list order.
ThreatCardsOf(threats, i) ==
  LET own == SelectSeq(threats, LAMBDA t : t.ownerIndex = i)
  IN [k \in 1..Len(own) |-> own[k].card]

\* endCylonPhase that discards the threats and leaves the phase as it is.
endCylonPhaseStay(s) ==
  LET s1 == Log([s EXCEPT !.players[0].discard = @ \o ThreatCardsOf(s.cylonThreats, 0),
                          !.players[1].discard = @ \o ThreatCardsOf(s.cylonThreats, 1),
                          !.cylonThreats = <<>>], "Cylon phase ends. Turn ends.")
  IN checkVictory(s1)

endCylonPhase(s) ==
  LET s1 == Log([s EXCEPT !.players[0].discard = @ \o ThreatCardsOf(s.cylonThreats, 0),
                          !.players[1].discard = @ \o ThreatCardsOf(s.cylonThreats, 1),
                          !.cylonThreats = <<>>], "Cylon phase ends. Turn ends.")
      s2 == checkVictory(s1)
  IN IF s2.phase # "gameOver" THEN startReadyPhase(s2) ELSE s2

\* One player's reveal in startCylonPhase: the flipped card becomes a threat.
RevealThreat(s, i) ==
  { LET s1 == Lookup(r.s, r.card.defId)
    IN Log([s1 EXCEPT !.cylonThreats = Append(@, [card |-> r.card,
                                                  power |-> getCardDef(r.card.defId).cylonThreat,
                                                  ownerIndex |-> i])], "reveals as Cylon threat")
    : r \in revealMysticValue(s, i) }

\* The filter that drops the threats of power 0 into their owners' discard.
RemoveZeroThreats(s) ==
  LET zero == SelectSeq(s.cylonThreats, LAMBDA t : t.power = 0)
      s1 == [s EXCEPT !.players[0].discard = @ \o ThreatCardsOf(zero, 0),
                      !.players[1].discard = @ \o ThreatCardsOf(zero, 1),
                      !.cylonThreats = SelectSeq(@, LAMBDA t : t.power # 0)]
      s2 == IF \A k \in 1..Len(zero) : KnownDef(zero[k].card.defId) THEN s1 ELSE Throw(s1)
  IN [s2 EXCEPT !.log = @ \o [k \in 1..Len(zero) |-> "Cylon threat (power 0) removed."]]

\* A Cylon phase skipped only below the fleet defense level.
noCylonAttackBelow(threatLevel, fleetDefenseLevel) == threatLevel < fleetDefenseLevel

\* The test that skips the Cylon phase: equality skips it too.
noCylonAttack(threatLevel, fleetDefenseLevel) == threatLevel <= fleetDefenseLevel

startCylonPhase(s) ==
  LET s1 == [s EXCEPT !.phase = "cylon"]
      s2 == [s1 EXCEPT !.firstPlayerIndex = determineFirstPlayer(s1)]
      s3 == Log(LookupTops([s2 EXCEPT !.activePlayerIndex = s2.firstPlayerIndex]), "Cylon phase: threat level")
  IN IF noCylonAttack(computeCylonThreatLevel(s3), s3.fleetDefenseLevel)
     THEN {endCylonPhase(Log(s3, "No Cylon attack this turn."))}
     ELSE LET s4 == Log([s3 EXCEPT !.cylonThreats = <<>>], "Cylon attack! Each player reveals a threat.")
          IN { LET s6 == RemoveZeroThreats(s5)
               IN IF Len(s6.cylonThreats) = 0
                  THEN endCylonPhase(Log(s6, "No Cylon threats remain."))
                  ELSE resetConsecutivePasses(s6)
               : s5 \in UNION { RevealThreat(sa, 1) : sa \in RevealThreat(s4, 0) } }

\* --------------------------------------------------- challenge resolution
\* A threat defeated only by the greater total.
threatDefeatedStrictly(atkTotal, defTotal) == atkTotal > defTotal

\* The comparison of resolveCylonChallenge: equal totals defeat the threat.
threatDefeated(atkTotal, defTotal) == atkTotal >= defTotal

resolveCylonChallenge(s) ==
  LET c == s.challenge
      ai == c.challengerPlayerIndex
      ci == c.cylonPlayerIndex
      found == findUnitInAnyZone(s.players[ai], c.challengerInstanceId)
  IN IF found.zone = ""
     THEN {[Log(s, "Challenger left play. Cylon challenge ends.") EXCEPT !.challenge = Null]}
     ELSE
       LET stack == FoundStack(s.players[ai], found)
           challengerPower == getUnitPower(stack) + c.challengerPowerBuff
           s0 == Lookup(s, TopCard(stack).defId)
           Outcome(ra, rd) ==
             LET s1 == rd.s
                 threatIdx == c.cylonThreatIndex
             IN IF threatIdx + 1 > Len(s1.cylonThreats)
                THEN [s1 EXCEPT !.challenge = Null]
                ELSE
                  LET threat == s1.cylonThreats[threatIdx + 1]
                      atkTotal == challengerPower + ra.value
                      defTotal == threat.power + rd.value
                      s2 == Log(Log(s1, "Challenger total"), "Cylon threat total")
                      s3 == IF threatDefeated(atkTotal, defTotal)
                            THEN LET g == Log(Log([s2 EXCEPT !.players[ai].influence = @ + CylonGain],
                                                  "Challenger defeats the Cylon threat!"), "gains influence")
                                     k == commitUnit(g, ai, c.challengerInstanceId)
                                 IN [k EXCEPT !.players[threat.ownerIndex].discard = Append(@, threat.card),
                                              !.cylonThreats = RemoveAt(@, threatIdx + 1)]
                            ELSE defeatUnit(Log(s2, "Cylon threat wins!"), ai, c.challengerInstanceId)
                      s4 == checkVictory(resetConsecutivePasses([s3 EXCEPT !.challenge = Null]))
                  IN IF s4.phase = "gameOver" THEN s4
                     ELSE IF Len(s4.cylonThreats) = 0 THEN endCylonPhase(s4)
                     ELSE advanceCylonTurn(s4)
       IN UNION { { Outcome(ra, rd) : rd \in revealMysticValue(ra.s, ci) }
                  : ra \in revealMysticValue(s0, ai) }

\* A challenger that wins only with the greater total.
challengerWinsStrictly(atkTotal, defTotal) == atkTotal > defTotal

\* The comparison of the two totals: a tie goes to the challenger.
challengerWins(atkTotal, defTotal) == atkTotal >= defTotal

resolveChallenge(s) ==
  LET c == s.challenge
      ai == c.challengerPlayerIndex
      di == c.defenderPlayerIndex
      found == findUnitInAnyZone(s.players[ai], c.challengerInstanceId)
      Finish(sf) ==
        LET s1 == checkVictory([sf EXCEPT !.challenge = Null])
        IN IF s1.phase # "gameOver" THEN advanceExecutionTurn(s1) ELSE s1
  IN IF c.isCylonChallenge THEN resolveCylonChallenge(s)
     ELSE IF found.zone = ""
     THEN {advanceExecutionTurn([Log(s, "Challenger left play. Challenge ends.") EXCEPT !.challenge = Null])}
     ELSE
       LET stack == FoundStack(s.players[ai], found)
           challengerPower == getUnitPower(stack) + c.challengerPowerBuff
           s0 == Lookup(s, TopCard(stack).defId)
           Defended(ra, rd) ==
             LET s1 == rd.s
                 dfound == findUnitInAnyZone(s1.players[di], c.defenderInstanceId)
                 defPower == IF dfound.zone = "" THEN 0
                             ELSE getUnitPower(FoundStack(s1.players[di], dfound)) + c.defenderPowerBuff
                 s2 == IF dfound.zone = "" THEN s1
                       ELSE Lookup(s1, TopCard(FoundStack(s1.players[di], dfound)).defId)
                 atkTotal == challengerPower + ra.value
                 defTotal == defPower + rd.value
                 s3 == Log(Log(s2, "Challenger total"), "Defender total")
             IN IF challengerWins(atkTotal, defTotal)
                THEN LET w == commitUnit(Log(s3, "Challenger wins!"), ai, c.challengerInstanceId)
                     IN IF dfound.zone # "" THEN defeatUnit(w, di, c.defenderInstanceId) ELSE w
                ELSE LET w == IF dfound.zone # ""
                              THEN commitUnit(Log(s3, "Defender wins!"), di, c.defenderInstanceId)
                              ELSE Log(s3, "Defender wins!")
                     IN defeatUnit(w, ai, c.challengerInstanceId)
       IN IF c.defenderInstanceId = NoInstance
          THEN {Finish(commitUnit(Log([s0 EXCEPT !.players[di].influence = @ - challengerPower],
                                      "Undefended!"), ai, c.challengerInstanceId))}
          ELSE UNION { { Finish(Defended(ra, rd)) : rd \in revealMysticValue(ra.s, di) }
                       : ra \in revealMysticValue(s0, ai) }

\* ---------------------------------------------------------------- actions
\* A GameAction; the fields an action type does not carry keep these defaults.
Act(type) ==
  [type |-> type, cardIndex |-> Absent, asSupply |-> FALSE, targetStackIndex |-> Absent,
   sourceInstanceId |-> NoInstance, targetInstanceId |-> NoInstance,
   missionInstanceId |-> NoInstance, challengerInstanceId |-> NoInstance,
   opponentIndex |-> Absent, defenderInstanceId |-> NoInstance, threatIndex |-> Absent]

HasCard(player, cardIndex) == cardIndex >= 0 /\ cardIndex < Len(player.hand)

caseKeepHand(s, i) ==
  {checkSetupComplete(Log([s EXCEPT !.players[i].hasMulliganed = TRUE], "keeps their hand"))}

caseRedraw(s, i) ==
  LET p == s.players[i]
      handSize == bases[p.baseDefId].handSize
  IN UNION { { checkSetupComplete(Log([s2 EXCEPT !.players[i].hasMulliganed = TRUE], "redraws their hand"))
               : s2 \in drawCards([s EXCEPT !.players[i].deck = d, !.players[i].hand = <<>>], i, handSize) }
             : d \in Perms(p.deck \o p.hand) }

casePlayToResource(s, i, a) ==
  LET p == s.players[i] IN
  IF ~HasCard(p, a.cardIndex) THEN {s}
  ELSE
    LET card == p.hand[a.cardIndex + 1]
        s1 == Lookup([s EXCEPT !.players[i].hand = RemoveAt(@, a.cardIndex + 1)], card.defId)
        stackIdx == IF a.targetStackIndex = Absent THEN 0 ELSE a.targetStackIndex
        s2 == IF a.asSupply
              THEN IF stackIdx >= 0 /\ stackIdx < Len(p.zones.resourceStacks)
                   THEN Log([s1 EXCEPT !.players[i].zones.resourceStacks[stackIdx + 1].supplyCards =
                                          Append(@, [card EXCEPT !.faceUp = FALSE])],
                            "plays as a supply card")
                   ELSE s1
              ELSE Log([s1 EXCEPT !.players[i].zones.resourceStacks =
                                     Append(@, [topCard |-> card, supplyCards |-> <<>>, exhausted |-> FALSE])],
                       "plays as an asset")
    IN {advanceReadyStep4([s2 EXCEPT !.players[i].hasPlayedResource = TRUE])}

casePassResource(s, i) ==
  {advanceReadyStep4(Log([s EXCEPT !.players[i].hasPlayedResource = TRUE],
                         "passes on playing to resource area"))}

\* A draw step that stays at step 3, where drawCards is offered again.
caseDrawCardsAgain(s) ==
  { [Log(s2, "All players draw 2 cards.") EXCEPT
       !.readyStep = 3, !.activePlayerIndex = s2.firstPlayerIndex,
       !.players[0].hasPlayedResource = FALSE, !.players[1].hasPlayedResource = FALSE]
    : s2 \in UNION { drawCards(s1, 1, DrawPerTurn) : s1 \in drawCards(s, 0, DrawPerTurn) } }

caseDrawCards(s) ==
  { [Log(s2, "All players draw 2 cards.") EXCEPT
       !.readyStep = 4, !.activePlayerIndex = s2.firstPlayerIndex,
       !.players[0].hasPlayedResource = FALSE, !.players[1].hasPlayedResource = FALSE]
    : s2 \in UNION { drawCards(s1, 1, DrawPerTurn) : s1 \in drawCards(s, 0, DrawPerTurn) } }

caseDoneReorder(s) == {advanceReadyStep5(s)}

\* The common tail of the execution actions.
EndExecutionAction(s) ==
  LET s1 == checkVictory(resetConsecutivePasses(s))
  IN IF s1.phase # "gameOver" THEN advanceExecutionTurn(s1) ELSE s1

\* The tail of playAbility, which may run inside a challenge.
EndAbility(s) ==
  LET s1 == checkVictory(resetConsecutivePasses(s))
  IN IF s1.phase = "gameOver" THEN s1
     ELSE IF s1.challenge # Null THEN advanceChallengeEffectTurn(s1)
     ELSE advanceExecutionTurn(s1)

casePlayCard(s, i, a) ==
  LET p == s.players[i] IN
  IF ~HasCard(p, a.cardIndex) THEN {s}
  ELSE
    LET card == p.hand[a.cardIndex + 1]
        def == getCardDef(card.defId)
        s1 == payResourceCost(Lookup(s, card.defId), i, def.cost)
        s2 == [s1 EXCEPT !.players[i].hand = RemoveAt(@, a.cardIndex + 1)]
        target == IF isUnit(def) /\ isSingular(def) THEN findOverlayTarget(s2.players[i], def)
                  ELSE [zone |-> "", index |-> 0]
        s3 == IF isUnit(def) \/ isMission(def)
              THEN IF target.zone = "alert"
                   THEN Log([s2 EXCEPT !.players[i].zones.alert[target.index].cards = <<card>> \o @,
                                       !.players[i].zones.alert[target.index].exhausted = FALSE],
                            "overlays onto existing stack")
                   ELSE IF target.zone = "reserve"
                   THEN Log([s2 EXCEPT !.players[i].zones.reserve[target.index].cards = <<card>> \o @,
                                       !.players[i].zones.reserve[target.index].exhausted = FALSE],
                            "overlays onto existing stack")
                   ELSE Log([s2 EXCEPT !.players[i].zones.reserve =
                                          Append(@, [cards |-> <<card>>, exhausted |-> FALSE])],
                            "plays to reserve")
              ELSE IF def.type = "event"
              THEN LET e == resolveEventEffect(Log(s2, "plays event"), i, def, NoInstance)
                   IN [e EXCEPT !.players[i].discard = Append(@, card)]
              ELSE s2
    IN {EndExecutionAction(s3)}

casePlayAbility(s, i, a) ==
  LET p == s.players[i]
      baseStack == p.zones.resourceStacks[1]
      idx == FirstIndex(p.zones.alert, LAMBDA st : TopCard(st).instanceId = a.sourceInstanceId)
  IN IF baseStack.topCard.instanceId = a.sourceInstanceId
     THEN {EndAbility(resolveBaseAbility(
             Log([s EXCEPT !.players[i].zones.resourceStacks[1].exhausted = TRUE], "exhausts base"),
             i, bases[p.baseDefId]))}
     ELSE IF idx = 0 THEN {s}
     ELSE
       LET def == getCardDef(TopCard(p.zones.alert[idx]).defId)
           s1 == Lookup(s, TopCard(p.zones.alert[idx]).defId)
           s2 == IF def.abilityId = "adama-commit"
                 THEN LET k == Log(commitUnit(s1, i, a.sourceInstanceId), "commits to give a unit +2 power")
                      IN IF a.targetInstanceId # NoInstance
                         THEN applyPowerBuff(k, a.targetInstanceId, 2) ELSE k
                 ELSE s1
       IN {EndAbility(s2)}

caseResolveMission(s, i, a) ==
  LET p == s.players[i]
      idx == FirstIndex(p.zones.alert, LAMBDA st : TopCard(st).instanceId = a.missionInstanceId)
  IN IF idx = 0 THEN {s}
     ELSE
       LET stack == p.zones.alert[idx]
           def == getCardDef(TopCard(stack).defId)
           s1 == Log(Lookup(s, TopCard(stack).defId), "resolves mission")
       IN { EndExecutionAction([s2 EXCEPT !.players[i].zones.alert = RemoveAt(@, idx),
                                          !.players[i].discard = @ \o stack.cards,
                                          !.players[i].hasResolvedMission = TRUE])
            : s2 \in resolveMissionEffect(s1, i, def) }

NewChallenge(challengerInstanceId, playerIndex) ==
  [challengerInstanceId |-> challengerInstanceId, challengerPlayerIndex |-> playerIndex,
   defenderInstanceId |-> NoInstance, defenderPlayerIndex |-> 1 - playerIndex,
   step |-> 1, challengerMysticValue |-> Absent, defenderMysticValue |-> Absent,
   waitingForDefender |-> TRUE, consecutivePasses |-> 0,
   challengerPowerBuff |-> 0, defenderPowerBuff |-> 0,
   isCylonChallenge |-> FALSE, cylonThreatIndex |-> Absent, cylonPlayerIndex |-> Absent]

caseChallenge(s, i, a) ==
  LET defId == findCardDefIdByInstanceId(s, a.challengerInstanceId)
  IN IF defId = "" THEN {s}
     ELSE LET s1 == Log(Lookup(s, defId), "challenges")
              s2 == resetConsecutivePasses([s1 EXCEPT !.challenge = NewChallenge(a.challengerInstanceId, i)])
          IN {[s2 EXCEPT !.activePlayerIndex = 1 - i]}

caseDefend(s, i, a) ==
  IF s.challenge = Null THEN {s}
  ELSE
    LET defId == findCardDefIdByInstanceId(s, a.defenderInstanceId)
        s1 == IF a.defenderInstanceId # NoInstance
              THEN Log([(IF defId = "" THEN s ELSE Lookup(s, defId))
                          EXCEPT !.challenge.defenderInstanceId = a.defenderInstanceId], "defends")
              ELSE Log(s, "declines to defend")
    IN {[s1 EXCEPT !.challenge.waitingForDefender = FALSE, !.challenge.step = 2,
                   !.challenge.consecutivePasses = 0,
                   !.activePlayerIndex = s1.challenge.challengerPlayerIndex]}

caseChallengePass(s, i) ==
  IF s.challenge = Null THEN {s}
  ELSE LET s1 == Log([s EXCEPT !.challenge.consecutivePasses = @ + 1], "passes in the challenge")
       IN IF s1.challenge.consecutivePasses >= PassesToEnd
          THEN resolveChallenge(s1)
          ELSE {advanceChallengeEffectTurn(s1)}

casePlayEventInChallenge(s, i, a) ==
  LET p == s.players[i] IN
  IF s.challenge = Null \/ ~HasCard(p, a.cardIndex) THEN {s}
  ELSE
    LET card == p.hand[a.cardIndex + 1]
        def == getCardDef(card.defId)
        s1 == payResourceCost(Lookup(s, card.defId), i, def.cost)
        s2 == Log([s1 EXCEPT !.players[i].hand = RemoveAt(@, a.cardIndex + 1)], "plays during challenge")
        s3 == resolveEventEffect(s2, i, def, a.targetInstanceId)
        s4 == [s3 EXCEPT !.players[i].discard = Append(@, card), !.challenge.consecutivePasses = 0]
    IN {advanceChallengeEffectTurn(s4)}

\* The pass case ending the phase as soon as one player has passed.
casePassAnyPlayer(s, i) ==
  LET s1 == Log([s EXCEPT !.players[i].consecutivePasses = @ + 1], "passes")
  IN IF \E j \in PlayerIdx : s1.players[j].consecutivePasses > 0
     THEN startCylonPhase(Log(s1, "All players passed. Execution phase ends."))
     ELSE {advanceExecutionTurn(s1)}

casePass(s, i) ==
  LET s1 == Log([s EXCEPT !.players[i].consecutivePasses = @ + 1], "passes")
  IN IF \A j \in PlayerIdx : s1.players[j].consecutivePasses > 0
     THEN startCylonPhase(Log(s1, "All players passed. Execution phase ends."))
     ELSE {advanceExecutionTurn(s1)}

caseChallengeCylon(s, i, a) ==
  IF a.threatIndex < 0 \/ a.threatIndex >= Len(s.cylonThreats) THEN {s}
  ELSE
    LET threat == s.cylonThreats[a.threatIndex + 1]
        defId == findCardDefIdByInstanceId(s, a.challengerInstanceId)
        s1 == Log(IF defId = "" THEN s ELSE Lookup(s, defId), "challenges Cylon threat")
        c == [NewChallenge(a.challengerInstanceId, i) EXCEPT
                !.defenderInstanceId = threat.card.instanceId,
                !.defenderPlayerIndex = (i + 1) % 2,
                !.step = 2, !.waitingForDefender = FALSE, !.isCylonChallenge = TRUE,
                !.cylonThreatIndex = a.threatIndex, !.cylonPlayerIndex = (i + 1) % 2]
    IN {[resetConsecutivePasses([s1 EXCEPT !.challenge = c]) EXCEPT !.activePlayerIndex = i]}

\* A passCylon that ends the phase on the passing player's pass alone.
casePassCylonAlone(s, i) ==
  LET s1 == Log([s EXCEPT !.players[i].influence = @ - 1, !.players[i].consecutivePasses = @ + 1],
                "passes in Cylon phase and loses 1 influence")
      s2 == checkVictory(s1)
  IN IF s2.phase = "gameOver" THEN {s2}
     ELSE IF s2.players[i].consecutivePasses > 0 \/ Len(s2.cylonThreats) = 0
     THEN {endCylonPhase(s2)}
     ELSE {advanceCylonTurn(s2)}

casePassCylon(s, i) ==
  LET s1 == Log([s EXCEPT !.players[i].influence = @ - 1, !.players[i].consecutivePasses = @ + 1],
                "passes in Cylon phase and loses 1 influence")
      s2 == checkVictory(s1)
  IN IF s2.phase = "gameOver" THEN {s2}
     ELSE IF (\A j \in PlayerIdx : s2.players[j].consecutivePasses > 0) \/ Len(s2.cylonThreats) = 0
     THEN {endCylonPhase(s2)}
     ELSE {advanceCylonTurn(s2)}

\* A last statement that replaces the state's log by the call's entries.
pushLogReplacing(s) == [s EXCEPT !.stateLog = s.log]

\* The last statement of applyAction: s.log.push(...log).
pushLog(s) == [s EXCEPT !.stateLog = @ \o s.log]

\* The outcomes of applyAction: the new state with the returned log list in
\* log, and err set when the call threw instead of returning.
applyAction(state, playerIndex, action) ==
  LET s == [state EXCEPT !.log = <<>>, !.err = FALSE]
      results ==
  CASE action.type = "keepHand" -> caseKeepHand(s, playerIndex)
    [] action.type = "redraw" -> caseRedraw(s, playerIndex)
    [] action.type = "playToResource" -> casePlayToResource(s, playerIndex, action)
    [] action.type = "passResource" -> casePassResource(s, playerIndex)
    [] action.type = "drawCards" -> caseDrawCards(s)
    [] action.type = "doneReorder" -> caseDoneReorder(s)
    [] action.type = "playCard" -> casePlayCard(s, playerIndex, action)
    [] action.type = "playAbility" -> casePlayAbility(s, playerIndex, action)
    [] action.type = "resolveMission" -> caseResolveMission(s, playerIndex, action)
    [] action.type = "challenge" -> caseChallenge(s, playerIndex, action)
    [] action.type = "defend" -> caseDefend(s, playerIndex, action)
    [] action.type = "challengePass" -> caseChallengePass(s, playerIndex)
    [] action.type = "playEventInChallenge" -> casePlayEventInChallenge(s, playerIndex, action)
    [] action.type = "pass" -> casePass(s, playerIndex)
    [] action.type = "challengeCylon" -> caseChallengeCylon(s, playerIndex, action)
    [] action.type = "passCylon" -> casePassCylon(s, playerIndex)
    [] OTHER -> {s}
  IN {pushLog(r) : r \in results}

\* ----------------------------------------------------------- createGame
\* Player number n (0 or 1) built by makePlayer when the counter is at counter.
makePlayer(base, deckDefIds, counter) ==
  [baseDefId |-> base.id,
   zones |-> [alert |-> <<>>, reserve |-> <<>>,
              resourceStacks |-> <<[topCard |-> makeCardInstance(counter, base.id),
                                    supplyCards |-> <<>>, exhausted |-> FALSE]>>],
   hand |-> <<>>,
   deck |-> [k \in 1..Len(deckDefIds) |-> makeCardInstance(counter + k, deckDefIds[k])],
   discard |-> <<>>,
   influence |-> base.startingInfluence,
   hasMulliganed |-> FALSE, hasPlayedResource |-> FALSE, hasResolvedMission |-> FALSE,
   consecutivePasses |-> 0]

createGame(base1, deck1, base2, deck2) ==
  LET p1 == makePlayer(base1, deck1, 0)
      p2 == makePlayer(base2, deck2, 1 + Len(deck1))
      first == IF p1.influence <= p2.influence THEN 0 ELSE 1
  IN UNION { UNION { UNION { { LET s3 == Log(s2, "Game created.") IN [s3 EXCEPT !.stateLog = s3.log]
                               : s2 \in drawCards(s1, 1, base2.handSize) }
                             : s1 \in drawCards(
                                 [players |-> [i \in PlayerIdx |-> IF i = 0 THEN [p1 EXCEPT !.deck = d1]
                                                                    ELSE [p2 EXCEPT !.deck = d2]],
                                  phase |-> "setup", turn |-> 0, readyStep |-> 1,
                                  firstPlayerIndex |-> first, activePlayerIndex |-> first,
                                  fleetDefenseLevel |-> base1.power + base2.power,
                                  challenge |-> Null, cylonThreats |-> <<>>, log |-> <<>>,
                                  stateLog |-> <<>>, winner |-> NoWinner,
                                  instanceCounter |-> 2 + Len(deck1) + Len(deck2),
                                  err |-> FALSE], 0, base1.handSize) }
                     : d2 \in Perms(p2.deck) }
             : d1 \in Perms(p1.deck) }

\* ---------------------------------------------------------- getPlayerView
\* A view that also carries the opponent's hand itself.
getPlayerViewWithHand(state, playerIndex) ==
  LET you == state.players[playerIndex]
      opp == state.players[1 - playerIndex]
  IN [you |-> [playerIndex |-> playerIndex, zones |-> you.zones, hand |-> you.hand,
               deckCount |-> Len(you.deck), discardCount |-> Len(you.discard),
               influence |-> you.influence],
      opponent |-> [zones |-> opp.zones, handCount |-> Len(opp.hand), hand |-> opp.hand,
                    deckCount |-> Len(opp.deck), discardCount |-> Len(opp.discard),
                    influence |-> opp.influence],
      phase |-> state.phase, turn |-> state.turn, readyStep |-> state.readyStep,
      firstPlayerIndex |-> state.firstPlayerIndex,
      activePlayerIndex |-> state.activePlayerIndex,
      fleetDefenseLevel |-> state.fleetDefenseLevel, challenge |-> state.challenge,
      cylonThreats |-> state.cylonThreats, log |-> state.stateLog, winner |-> state.winner]

getPlayerView(state, playerIndex) ==
  LET you == state.players[playerIndex]
      opp == state.players[1 - playerIndex]
  IN [you |-> [playerIndex |-> playerIndex, zones |-> you.zones, hand |-> you.hand,
               deckCount |-> Len(you.deck), discardCount |-> Len(you.discard),
               influence |-> you.influence],
      opponent |-> [zones |-> opp.zones, handCount |-> Len(opp.hand),
                    deckCount |-> Len(opp.deck), discardCount |-> Len(opp.discard),
                    influence |-> opp.influence],
      phase |-> state.phase, turn |-> state.turn, readyStep |-> state.readyStep,
      firstPlayerIndex |-> state.firstPlayerIndex,
      activePlayerIndex |-> state.activePlayerIndex,
      fleetDefenseLevel |-> state.fleetDefenseLevel, challenge |-> state.challenge,
      cylonThreats |-> state.cylonThreats, log |-> state.stateLog, winner |-> state.winner]

\* ------------------------------------------------------- getValidActions
Entry(type, description) ==
  [type |-> type, description |-> description,
   selectableCardIndices |-> <<>>, selectableInstanceIds |-> <<>>,
   selectableStackIndices |-> <<>>, selectableThreatIndices |-> <<>>]

\* The 1-based indices k of seq with P(seq[k]), ascending.
Indices(seq, P(_)) == SelectSeq([k \in 1..Len(seq) |-> k], LAMBDA k : P(seq[k]))

canResolveMission(player, missionDef) ==
  IF missionDef.resolveReq = <<>> THEN TRUE
  ELSE Len(Indices(player.zones.alert,
                   LAMBDA st : TopCard(st).faceUp /\ ~st.exhausted
                               /\ getCardDef(TopCard(st).defId).type = missionDef.resolveReq[2]))
         >= missionDef.resolveReq[1]

\* The instance ids of the face-up, non-exhausted alert units of player.
ReadyUnitIds(player) ==
  LET ks == Indices(player.zones.alert,
                    LAMBDA st : TopCard(st).faceUp /\ ~st.exhausted /\ isUnit(getCardDef(TopCard(st).defId)))
  IN [n \in 1..Len(ks) |-> TopCard(player.zones.alert[ks[n]]).instanceId]

getChallengeActions(state, playerIndex) ==
  LET challenge == state.challenge
      player == state.players[playerIndex]
      challengerDefId == findCardDefIdByInstanceId(state, challenge.challengerInstanceId)
      dks == Indices(player.zones.alert,
               LAMBDA st : TopCard(st).faceUp /\ ~st.exhausted
                           /\ isUnit(getCardDef(TopCard(st).defId))
                           /\ getCardDef(TopCard(st).defId).type = getCardDef(challengerDefId).type)
      defenders == [n \in 1..Len(dks) |-> TopCard(player.zones.alert[dks[n]]).instanceId]
      eks == Indices(player.hand, LAMBDA c : getCardDef(c.defId).type = "event"
                                             /\ canAfford(player, getCardDef(c.defId)))
      aks == Indices(player.zones.alert,
               LAMBDA st : TopCard(st).faceUp /\ getCardDef(TopCard(st).defId).abilityId # ""
                           /\ getCardDef(TopCard(st).defId).commit)
  IN IF challenge.waitingForDefender /\ playerIndex = challenge.defenderPlayerIndex
     THEN (IF challengerDefId # "" /\ Len(defenders) > 0
           THEN <<[Entry("defend", "Choose a defender") EXCEPT !.selectableInstanceIds = defenders]>>
           ELSE <<>>)
          \o <<Entry("defend", "Decline to defend")>>
     ELSE IF challenge.step = 2 /\ state.activePlayerIndex = playerIndex
     THEN [n \in 1..Len(eks) |->
             [Entry("playEventInChallenge", "Play") EXCEPT !.selectableCardIndices = <<eks[n] - 1>>]]
          \o [n \in 1..Len(aks) |->
                [Entry("playAbility", "Commit") EXCEPT
                   !.selectableInstanceIds = <<TopCard(player.zones.alert[aks[n]]).instanceId>>]]
          \o <<Entry("challengePass", "Pass")>>
     ELSE <<>>

getValidActions(state, playerIndex) ==
  LET player == state.players[playerIndex]
      isActive == state.activePlayerIndex = playerIndex
      stacks == player.zones.resourceStacks
      pks == Indices(player.hand, LAMBDA c : canAfford(player, getCardDef(c.defId)))
      aks == Indices(player.zones.alert,
               LAMBDA st : TopCard(st).faceUp /\ ~st.exhausted
                           /\ getCardDef(TopCard(st).defId).abilityId # ""
                           /\ getCardDef(TopCard(st).defId).commit)
      mks == Indices(player.zones.alert,
               LAMBDA st : TopCard(st).faceUp /\ isMission(getCardDef(TopCard(st).defId))
                           /\ canResolveMission(player, getCardDef(TopCard(st).defId)))
      units == ReadyUnitIds(player)
  IN IF state.phase = "setup"
     THEN IF ~player.hasMulliganed /\ Len(player.hand) > 0
          THEN <<Entry("keepHand", "Keep your hand"), Entry("redraw", "Redraw your hand")>>
          ELSE <<>>
     ELSE IF state.phase = "gameOver" THEN <<>>
     ELSE IF state.challenge # Null THEN getChallengeActions(state, playerIndex)
     ELSE IF state.phase = "ready" /\ state.readyStep = 3 /\ isActive
     THEN <<Entry("drawCards", "Draw 2 Cards")>>
     ELSE IF state.phase = "ready" /\ state.readyStep = 4 /\ isActive
     THEN IF ~player.hasPlayedResource
          THEN (IF Len(player.hand) > 0
                THEN <<[Entry("playToResource", "Deploy a card to resource area") EXCEPT
                          !.selectableCardIndices = [k \in 1..Len(player.hand) |-> k - 1],
                          !.selectableStackIndices = [k \in 1..Len(stacks) |-> k - 1]]>>
                ELSE <<>>)
               \o <<Entry("passResource", "Pass")>>
          ELSE <<>>
     ELSE IF state.phase = "ready" /\ state.readyStep = 5 /\ isActive
     THEN <<Entry("doneReorder", "Done reordering stacks")>>
     ELSE IF state.phase = "execution" /\ isActive
     THEN [n \in 1..Len(pks) |-> [Entry("playCard", "Play") EXCEPT !.selectableCardIndices = <<pks[n] - 1>>]]
          \o (IF bases[player.baseDefId].abilityId # "" /\ ~stacks[1].exhausted
              THEN <<[Entry("playAbility", "Use base ability") EXCEPT
                        !.selectableInstanceIds = <<stacks[1].topCard.instanceId>>]>>
              ELSE <<>>)
          \o [n \in 1..Len(aks) |->
                [Entry("playAbility", "Commit") EXCEPT
                   !.selectableInstanceIds = <<TopCard(player.zones.alert[aks[n]]).instanceId>>]]
          \o (IF Len(units) > 0
              THEN <<[Entry("challenge", "Challenge opponent") EXCEPT !.selectableInstanceIds = units]>>
              ELSE <<>>)
          \o (IF ~player.hasResolvedMission
              THEN [n \in 1..Len(mks) |->
                      [Entry("resolveMission", "Resolve") EXCEPT
                         !.selectableInstanceIds = <<TopCard(player.zones.alert[mks[n]]).instanceId>>]]
              ELSE <<>>)
          \o <<Entry("pass", "Pass")>>
     ELSE IF state.phase = "cylon" /\ isActive /\ Len(state.cylonThreats) > 0
     THEN (IF Len(units) > 0
           THEN <<[Entry("challengeCylon", "Challenge a Cylon threat") EXCEPT
                     !.selectableInstanceIds = units,
                     !.selectableThreatIndices = [k \in 1..Len(state.cylonThreats) |-> k - 1]]>>
           ELSE <<>>)
          \o <<Entry("passCylon", "Pass (lose 1 influence)")>>
     ELSE <<>>

\* ------------------------------------------------------- deck validation
\* A CardDef as the deck rules read it; an absent title or subtitle is "",
\* cost null is NoCost.
DeckCard(id, title, subtitle, type, resource, cost, power, mysticValue) ==
  [id |-> id, title |-> title, subtitle |-> subtitle, type |-> type, resource |-> resource,
   cost |-> cost, power |-> power, mysticValue |-> mysticValue]

\* The name the 4-copy rule counts: "title, subtitle" when both are present
\* (here the pair), else the subtitle, else the title, else the id.
getCardName(card) ==
  IF card.title # "" /\ card.subtitle # "" THEN <<card.title, card.subtitle>>
  ELSE IF card.subtitle # "" THEN <<card.subtitle>>
  ELSE IF card.title # "" THEN <<card.title>>
  ELSE <<card.id>>

\* registry.cards[cardId]: the card of that id in the sequence cards, or Null.
RegistryCard(reg, cardId) ==
  IF \E k \in 1..Len(reg.cards) : reg.cards[k].id = cardId
  THEN reg.cards[CHOOSE k \in 1..Len(reg.cards) : reg.cards[k].id = cardId]
  ELSE Null

\* The number of ids among the first n of deckCardIds that resolve to a card of this name.
CopiesOf(reg, deckCardIds, name, n) ==
  Cardinality({k \in 1..n : /\ RegistryCard(reg, deckCardIds[k]) # Null
                            /\ getCardName(RegistryCard(reg, deckCardIds[k])) = name})

\* The names counted, in the order of their first occurrence in the deck:
\* the iteration order of the Map nameCounts.
RECURSIVE NamesInOrder(_, _, _)
NamesInOrder(reg, deckCardIds, k) ==
  IF k > Len(deckCardIds) THEN <<>>
  ELSE LET def == RegistryCard(reg, deckCardIds[k])
       IN IF def # Null /\ CopiesOf(reg, deckCardIds, getCardName(def), k) = 1
          THEN <<getCardName(def)>> \o NamesInOrder(reg, deckCardIds, k + 1)
          ELSE NamesInOrder(reg, deckCardIds, k + 1)

\* The error entries: [kind, what], kind one of "base", "size", "card", "copies".
DeckError(kind, what) == [kind |-> kind, what |-> what]

\* validateDeck without the test of the base id.
validateDeckNoBaseCheck(submission, reg) ==
  LET ids == submission.deckCardIds
      sizeErrors == IF Len(ids) < MinDeckSize THEN <<DeckError("size", <<>>)>> ELSE <<>>
      unknown == SelectSeq(ids, LAMBDA id : RegistryCard(reg, id) = Null)
      cardErrors == [k \in 1..Len(unknown) |-> DeckError("card", <<unknown[k]>>)]
      names == NamesInOrder(reg, ids, 1)
      over == SelectSeq(names, LAMBDA name : CopiesOf(reg, ids, name, Len(ids)) > MaxCopies)
      copyErrors == [k \in 1..Len(over) |-> DeckError("copies", over[k])]
      errors == sizeErrors \o cardErrors \o copyErrors
  IN [valid |-> errors = <<>>, errors |-> errors]

validateDeck(submission, reg) ==
  IF submission.baseId \notin reg.bases
  THEN [valid |-> FALSE, errors |-> <<DeckError("base", <<submission.baseId>>)>>]
  ELSE LET ids == submission.deckCardIds
           sizeErrors == IF Len(ids) < MinDeckSize THEN <<DeckError("size", <<>>)>> ELSE <<>>
           unknown == SelectSeq(ids, LAMBDA id : RegistryCard(reg, id) = Null)
           cardErrors == [k \in 1..Len(unknown) |-> DeckError("card", <<unknown[k]>>)]
           names == NamesInOrder(reg, ids, 1)
           over == SelectSeq(names, LAMBDA name : CopiesOf(reg, ids, name, Len(ids)) > MaxCopies)
           copyErrors == [k \in 1..Len(over) |-> DeckError("copies", over[k])]
           errors == sizeErrors \o cardErrors \o copyErrors
       IN [valid |-> errors = <<>>, errors |-> errors]

\* ------------------------------------------------------- AI deck builder
\* Twice the part of scoreCard that is not random (twice, to keep the
\* half points of the mystic value whole).
scoreCard(card, baseResource) ==
  (IF card.resource = baseResource THEN 20 ELSE 0)
  + (IF card.cost # NoCost /\ \A t \in ResourceTypes : card.cost[t] > 0 => t = baseResource
     THEN 10 ELSE 0)
  + 2 * card.power
  - 2 * (card.cost.persuasion + card.cost.logistics + card.cost.security)
  + card.mysticValue

\* The orders scored.sort can give the cards: scoreCard adds Math.random() * 2
\* to each score, so a card can come before another unless its fixed score
\* is lower by 2 or more (4 here, scores being doubled).
RECURSIVE SortedOrders(_, _)
SortedOrders(cards, baseResource) ==
  IF Len(cards) <= 1 THEN {cards}
  ELSE UNION { { <<cards[i]>> \o t : t \in SortedOrders(RemoveAt(cards, i), baseResource) }
               : i \in { i \in 1..Len(cards) :
                           \A j \in 1..Len(cards) :
                             scoreCard(cards[j], baseResource) - scoreCard(cards[i], baseResource)
                               < RandomSpan } }

\* The state of one addCards call: the deck, the name counts and added.
RECURSIVE addCardsFrom(_, _, _, _, _)
addCardsFrom(scored, k, acc, count, added) ==
  IF k > Len(scored) \/ added >= count THEN acc
  ELSE LET name == getCardName(scored[k])
           current == IF name \in DOMAIN acc.nameCounts THEN acc.nameCounts[name] ELSE 0
           toAddA == BuilderCopies - current
           toAddB == count - added
           toAdd == IF toAddA < toAddB THEN toAddA ELSE toAddB
           more == IF toAdd > 0 THEN [n \in 1..toAdd |-> scored[k].id] ELSE <<>>
       IN addCardsFrom(scored, k + 1,
                       [deckCardIds |-> acc.deckCardIds \o more,
                        nameCounts |-> [n \in DOMAIN acc.nameCounts \cup {name} |->
                                          IF n = name THEN current + toAdd ELSE acc.nameCounts[n]]],
                       count, added + toAdd)

\* addCards that stops one card short of the count.
addCardsOneShort(scored, acc, count) == addCardsFrom(scored, 1, acc, count - 1, 0)

addCards(scored, acc, count) == addCardsFrom(scored, 1, acc, count, 0)

\* The cards addCards can still take copies of.  shuffle gives the last pass
\* any order of all the cards; a card whose name already has its copies adds
\* nothing wherever it stands, so the orders of the others are the outcomes.
Addable(cards, acc) ==
  SelectSeq(cards, LAMBDA c : ~(getCardName(c) \in DOMAIN acc.nameCounts
                                /\ acc.nameCounts[getCardName(c)] >= BuilderCopies))

\* The decks buildAIDeck can return for the registry.
buildAIDeck(reg) ==
  UNION {
    LET baseResource == bases[baseId].resource
        units == SelectSeq(reg.cards, LAMBDA c : c.type = "personnel" \/ c.type = "ship")
        nonUnits == SelectSeq(reg.cards, LAMBDA c : c.type = "event" \/ c.type = "mission")
        empty == [deckCardIds |-> <<>>, nameCounts |-> <<>>]
    IN UNION { UNION {
         LET a1 == addCards(scoredUnits, empty, TARGET_UNITS)
             a2 == addCards(scoredNonUnits, a1, TARGET_SIZE - Len(a1.deckCardIds))
         IN IF Len(a2.deckCardIds) < TARGET_SIZE
            THEN { [baseId |-> baseId,
                    deckCardIds |-> addCards(allScored, a2, TARGET_SIZE - Len(a2.deckCardIds)).deckCardIds]
                   : allScored \in Perms(Addable(reg.cards, a2)) }
            ELSE { [baseId |-> baseId, deckCardIds |-> a2.deckCardIds] }
         : scoredNonUnits \in SortedOrders(nonUnits, baseResource) }
         : scoredUnits \in SortedOrders(units, baseResource) }
    : baseId \in reg.bases }

\* ------------------------------------------------------------------ state
VARIABLES players, phase, turn, readyStep, firstPlayerIndex, activePlayerIndex,
          fleetDefenseLevel, challenge, cylonThreats, log, winner,
          instanceCounter,  \* the module-level id counter
          applied,          \* the number of applyAction calls made so far
          last,             \* the applyAction call that produced this state
          threw,            \* that call threw; the caller kept the prior state
          registry,         \* the CardRegistry the deck rules are tried on
          deck,             \* the deck tried: its source, the submission, the result
          room              \* the server's GameRoom and its processAITurns loops

game == <<players, phase, turn, readyStep, firstPlayerIndex, activePlayerIndex,
          fleetDefenseLevel, challenge, cylonThreats, winner>>
engineVars == <<players, phase, turn, readyStep, firstPlayerIndex, activePlayerIndex,
                fleetDefenseLevel, challenge, cylonThreats, log, winner, instanceCounter,
                applied, last, threw>>
benchVars == <<registry, deck, room>>
vars == <<engineVars, benchVars>>

\* The current GameState as the record the operators above work on.
State ==
  [players |-> players, phase |-> phase, turn |-> turn, readyStep |-> readyStep,
   firstPlayerIndex |-> firstPlayerIndex, activePlayerIndex |-> activePlayerIndex,
   fleetDefenseLevel |-> fleetDefenseLevel, challenge |-> challenge,
   cylonThreats |-> cylonThreats, log |-> log, stateLog |-> log, winner |-> winner,
   instanceCounter |-> instanceCounter, err |-> FALSE]

NoRegistry == [bases |-> {}, cards |-> <<>>]
\* No result yet: no call of validateDeck returns this (an invalid deck has errors).
NoResult == [valid |-> FALSE, errors |-> <<>>]
NoDeck == [source |-> "none", submission |-> [baseId |-> "", deckCardIds |-> <<>>], result |-> NoResult]

\* The room a joinGame message creates (createRoom): no game, no AI-turn loop.
\* active tells that a processAITurns loop is running, waiting counts the
\* loops suspended in waitForContinue, continueResolve tells that
\* room.continueResolve is set, submits counts the decks submitted; event is
\* the last message or timer handled, and actionInLoop tells that it applied
\* an action of the human while a loop was suspended.
NoRoom ==
  [hasGame |-> FALSE, aiProcessing |-> FALSE, active |-> FALSE, waiting |-> 0,
   continueResolve |-> FALSE, submits |-> 0, event |-> "joinGame", actionInLoop |-> FALSE]

\* No deck is being tried and no room is served.
OffBench == registry = NoRegistry /\ deck = NoDeck /\ room = NoRoom

\* The games played: the bases and the deck lists handed to createGame.
Games ==
  { [base1 |-> "colonial-one", deck1 |-> <<"viper-mk2", "condition-one", "shuttle-diplomacy">>,
     base2 |-> "galactica", deck2 |-> <<"shuttle-diplomacy">>],
    [base1 |-> "galactica", deck1 |-> <<"viper-mk2">>,
     base2 |-> "colonial-one", deck2 |-> <<"press-junket", "condition-one">>],
    [base1 |-> "galactica", deck1 |-> <<"viper-mk2">>,
     base2 |-> "colonial-one", deck2 |-> <<"shuttle-diplomacy">>] }

Init ==
  \E g \in Games :
    \E s \in createGame(bases[g.base1], g.deck1, bases[g.base2], g.deck2) :
      /\ players = s.players /\ phase = s.phase /\ turn = s.turn /\ readyStep = s.readyStep
      /\ firstPlayerIndex = s.firstPlayerIndex /\ activePlayerIndex = s.activePlayerIndex
      /\ fleetDefenseLevel = s.fleetDefenseLevel /\ challenge = s.challenge
      /\ cylonThreats = s.cylonThreats /\ log = s.log /\ winner = s.winner
      /\ instanceCounter = s.instanceCounter
      /\ applied = 0
      /\ last = [player |-> Absent, action |-> Act("createGame"), legal |-> TRUE]
      /\ threw = FALSE
      /\ OffBench

\* The games above and one in which a unit of power 1 challenges while its
\* owner holds Outmaneuvered (-2 power).
BuffGames ==
  Games \cup
  { [base1 |-> "colonial-one", deck1 |-> <<"raptor-227", "condition-one", "outmaneuvered">>,
     base2 |-> "galactica", deck2 |-> <<"viper-mk2">>] }

InitBuff ==
  \E g \in BuffGames :
    \E s \in createGame(bases[g.base1], g.deck1, bases[g.base2], g.deck2) :
      /\ players = s.players /\ phase = s.phase /\ turn = s.turn /\ readyStep = s.readyStep
      /\ firstPlayerIndex = s.firstPlayerIndex /\ activePlayerIndex = s.activePlayerIndex
      /\ fleetDefenseLevel = s.fleetDefenseLevel /\ challenge = s.challenge
      /\ cylonThreats = s.cylonThreats /\ log = s.log /\ winner = s.winner
      /\ instanceCounter = s.instanceCounter
      /\ applied = 0
      /\ last = [player |-> Absent, action |-> Act("createGame"), legal |-> TRUE]
      /\ threw = FALSE
      /\ OffBench

\* ------------------------------------------------ building concrete actions
Elems(seq) == {seq[k] : k \in 1..Len(seq)}

\* The instance ids an effect can be aimed at: none, or a side of the challenge.
Targets(state) ==
  {NoInstance} \cup (IF state.challenge = Null THEN {}
                     ELSE {state.challenge.challengerInstanceId, state.challenge.defenderInstanceId})

\* The concrete actions a caller builds from entry e of getValidActions(state, i).
ConcreteActions(state, i, e) ==
  CASE e.type = "playToResource" ->
         { [Act(e.type) EXCEPT !.cardIndex = c] : c \in Elems(e.selectableCardIndices) }
         \cup { [Act(e.type) EXCEPT !.cardIndex = c, !.asSupply = TRUE, !.targetStackIndex = k]
                : c \in Elems(e.selectableCardIndices), k \in Elems(e.selectableStackIndices) }
    [] e.type = "playCard" ->
         { [Act(e.type) EXCEPT !.cardIndex = c] : c \in Elems(e.selectableCardIndices) }
    [] e.type = "playEventInChallenge" ->
         { [Act(e.type) EXCEPT !.cardIndex = c, !.targetInstanceId = g]
           : c \in Elems(e.selectableCardIndices), g \in Targets(state) }
    [] e.type = "playAbility" ->
         { [Act(e.type) EXCEPT !.sourceInstanceId = u, !.targetInstanceId = g]
           : u \in Elems(e.selectableInstanceIds), g \in Targets(state) }
    [] e.type = "resolveMission" ->
         { [Act(e.type) EXCEPT !.missionInstanceId = u] : u \in Elems(e.selectableInstanceIds) }
    [] e.type = "challenge" ->
         { [Act(e.type) EXCEPT !.challengerInstanceId = u, !.opponentIndex = 1 - i]
           : u \in Elems(e.selectableInstanceIds) }
    [] e.type = "defend" ->
         IF e.selectableInstanceIds = <<>> THEN {Act(e.type)}
         ELSE { [Act(e.type) EXCEPT !.defenderInstanceId = u] : u \in Elems(e.selectableInstanceIds) }
    [] e.type = "challengeCylon" ->
         { [Act(e.type) EXCEPT !.challengerInstanceId = u, !.threatIndex = k]
           : u \in Elems(e.selectableInstanceIds), k \in Elems(e.selectableThreatIndices) }
    [] OTHER -> {Act(e.type)}

LegalActions(state, i) ==
  UNION { ConcreteActions(state, i, e) : e \in Elems(getValidActions(state, i)) }

\* ------------------------------------------------------------ transitions
\* The caller's step (server: result = applyAction(...); room.gameState =
\* result.state, inside try/catch): a thrown call leaves the game state as it was.
Install(r, i, a, isLegal) ==
  /\ r.turn <= MaxTurn
  /\ applied < MaxActions
  /\ applied' = applied + 1
  /\ last' = [player |-> i, action |-> a, legal |-> isLegal]
  /\ instanceCounter' = r.instanceCounter
  /\ threw' = r.err
  /\ log' = r.log
  /\ IF r.err THEN UNCHANGED game
     ELSE /\ players' = r.players /\ phase' = r.phase /\ turn' = r.turn
          /\ readyStep' = r.readyStep /\ firstPlayerIndex' = r.firstPlayerIndex
          /\ activePlayerIndex' = r.activePlayerIndex
          /\ fleetDefenseLevel' = r.fleetDefenseLevel /\ challenge' = r.challenge
          /\ cylonThreats' = r.cylonThreats /\ winner' = r.winner

\* The legal actions of one type: those built from getValidActions(State, i).
LegalOf(i, type) == {a \in LegalActions(State, i) : a.type = type}

\* What applyAction works on: the clone of the state, with an empty log list.
Cloned == [State EXCEPT !.log = <<>>]

\* Player i applies the legal action a, whose outcomes are results: one
\* action below per case of the switch in applyAction.
Apply(results, i, a) ==
  /\ last.legal
  /\ UNCHANGED benchVars
  /\ \E r \in results : Install(pushLog(r), i, a, TRUE)

KeepHand ==
  \E i \in PlayerIdx : \E a \in LegalOf(i, "keepHand") : Apply(caseKeepHand(Cloned, i), i, a)
Redraw ==
  \E i \in PlayerIdx : \E a \in LegalOf(i, "redraw") : Apply(caseRedraw(Cloned, i), i, a)
DrawCards ==
  \E i \in PlayerIdx : \E a \in LegalOf(i, "drawCards") : Apply(caseDrawCards(Cloned), i, a)
PlayToResource ==
  \E i \in PlayerIdx : \E a \in LegalOf(i, "playToResource") : Apply(casePlayToResource(Cloned, i, a), i, a)
PassResource ==
  \E i \in PlayerIdx : \E a \in LegalOf(i, "passResource") : Apply(casePassResource(Cloned, i), i, a)
DoneReorder ==
  \E i \in PlayerIdx : \E a \in LegalOf(i, "doneReorder") : Apply(caseDoneReorder(Cloned), i, a)
PlayCard ==
  \E i \in PlayerIdx : \E a \in LegalOf(i, "playCard") : Apply(casePlayCard(Cloned, i, a), i, a)
PlayAbility ==
  \E i \in PlayerIdx : \E a \in LegalOf(i, "playAbility") : Apply(casePlayAbility(Cloned, i, a), i, a)
ResolveMission ==
  \E i \in PlayerIdx : \E a \in LegalOf(i, "resolveMission") : Apply(caseResolveMission(Cloned, i, a), i, a)
Challenge ==
  \E i \in PlayerIdx : \E a \in LegalOf(i, "challenge") : Apply(caseChallenge(Cloned, i, a), i, a)
Defend ==
  \E i \in PlayerIdx : \E a \in LegalOf(i, "defend") : Apply(caseDefend(Cloned, i, a), i, a)
ChallengePass ==
  \E i \in PlayerIdx : \E a \in LegalOf(i, "challengePass") : Apply(caseChallengePass(Cloned, i), i, a)
PlayEventInChallenge ==
  \E i \in PlayerIdx : \E a \in LegalOf(i, "playEventInChallenge") :
    Apply(casePlayEventInChallenge(Cloned, i, a), i, a)
Pass ==
  \E i \in PlayerIdx : \E a \in LegalOf(i, "pass") : Apply(casePass(Cloned, i), i, a)
ChallengeCylon ==
  \E i \in PlayerIdx : \E a \in LegalOf(i, "challengeCylon") : Apply(caseChallengeCylon(Cloned, i, a), i, a)
PassCylon ==
  \E i \in PlayerIdx : \E a \in LegalOf(i, "passCylon") : Apply(casePassCylon(Cloned, i), i, a)

Next ==
  \/ KeepHand \/ Redraw \/ DrawCards \/ PlayToResource \/ PassResource \/ DoneReorder
  \/ PlayCard \/ PlayAbility \/ ResolveMission \/ Challenge \/ Defend \/ ChallengePass
  \/ PlayEventInChallenge \/ Pass \/ ChallengeCylon \/ PassCylon

Spec == Init /\ [][Next]_vars

\* ------------------------------------------------------ games with units
\* Games in which both players bring units into play: a challenge with a
\* defender and effects, overlays, and a card that costs two resources.
DuelGames ==
  { [base1 |-> "colonial-one", deck1 |-> <<"apollo-ace", "condition-one", "fire-support">>,
     base2 |-> "galactica", deck2 |-> <<"william-adama", "condition-one">>],
    [base1 |-> "galactica", deck1 |-> <<"apollo-ace", "apollo-cag", "condition-one">>,
     base2 |-> "colonial-one", deck2 |-> <<"shuttle-diplomacy">>],
    [base1 |-> "galactica", deck1 |-> <<"william-adama", "adama-admiral", "condition-one">>,
     base2 |-> "colonial-one", deck2 |-> <<"shuttle-diplomacy">>],
    [base1 |-> "galactica", deck1 |-> <<"viper-mk2">>,
     base2 |-> "colonial-one", deck2 |-> <<"press-junket", "condition-one">>] }

InitDuel ==
  \E g \in DuelGames :
    \E s \in createGame(bases[g.base1], g.deck1, bases[g.base2], g.deck2) :
      /\ players = s.players /\ phase = s.phase /\ turn = s.turn /\ readyStep = s.readyStep
      /\ firstPlayerIndex = s.firstPlayerIndex /\ activePlayerIndex = s.activePlayerIndex
      /\ fleetDefenseLevel = s.fleetDefenseLevel /\ challenge = s.challenge
      /\ cylonThreats = s.cylonThreats /\ log = s.log /\ winner = s.winner
      /\ instanceCounter = s.instanceCounter
      /\ applied = 0
      /\ last = [player |-> Absent, action |-> Act("createGame"), legal |-> TRUE]
      /\ threw = FALSE
      /\ OffBench

SpecDuel == InitDuel /\ [][Next]_vars

SpecBuff == InitBuff /\ [][Next]_vars

\* ------------------------------------------------------------ other rooms
\* The server starts the game of another room: createGame sets the module's
\* instanceCounter to 0 and counts that game's two bases and its cards.
OtherGame ==
  /\ last.legal
  /\ \E g \in Games : instanceCounter' = 2 + Len(g.deck1) + Len(g.deck2)
  /\ instanceCounter' # instanceCounter
  /\ UNCHANGED <<game, log, applied, last, threw, benchVars>>

NextRooms == Next \/ OtherGame

SpecRooms == Init /\ [][NextRooms]_vars

\* --------------------------------------------------- games with a Cylon attack
\* Games in which the Cylon phase attacks and a threat is challenged: player 1
\* plays a ship and readies it with Condition One, and the card left in the
\* deck after the draw step is revealed as the threat.
CylonGames ==
  { [base1 |-> "colonial-one", deck1 |-> <<"viper-mk2", "condition-one", "shuttle-diplomacy", "raptor-227">>,
     base2 |-> "galactica", deck2 |-> <<"condition-one">>],
    [base1 |-> "galactica", deck1 |-> <<"viper-mk2">>,
     base2 |-> "colonial-one", deck2 |-> <<"press-junket", "condition-one">>] }

InitCylon ==
  \E g \in CylonGames :
    \E s \in createGame(bases[g.base1], g.deck1, bases[g.base2], g.deck2) :
      /\ players = s.players /\ phase = s.phase /\ turn = s.turn /\ readyStep = s.readyStep
      /\ firstPlayerIndex = s.firstPlayerIndex /\ activePlayerIndex = s.activePlayerIndex
      /\ fleetDefenseLevel = s.fleetDefenseLevel /\ challenge = s.challenge
      /\ cylonThreats = s.cylonThreats /\ log = s.log /\ winner = s.winner
      /\ instanceCounter = s.instanceCounter
      /\ applied = 0
      /\ last = [player |-> Absent, action |-> Act("createGame"), legal |-> TRUE]
      /\ threw = FALSE
      /\ OffBench

SpecCylon == InitCylon /\ [][Next]_vars

\* ------------------------------------------------- actions nobody offered
\* The server hands a client's action to applyAction without comparing it
\* with getValidActions, so any GameAction can arrive from either player.
ActionTypes ==
  {"keepHand", "redraw", "drawCards", "playToResource", "passResource", "doneReorder",
   "playCard", "playAbility", "resolveMission", "challenge", "defend", "challengePass",
   "playEventInChallenge", "pass", "challengeCylon", "passCylon"}

\* The instance ids player i can name: the tops of the unit stacks in play
\* and the player's own base.
StackIds(state, i) ==
  {TopCard(st).instanceId : st \in Elems(AllStacks(state.players[0]) \o AllStacks(state.players[1]))}
  \cup {state.players[i].zones.resourceStacks[1].topCard.instanceId}

AnyActions(state, i) ==
  {Act(type) : type \in ActionTypes}
  \cup { [Act("playToResource") EXCEPT !.cardIndex = c] : c \in 0..MaxIndex }
  \cup { [Act("playToResource") EXCEPT !.cardIndex = c, !.asSupply = TRUE, !.targetStackIndex = k]
         : c \in 0..MaxIndex, k \in 0..MaxIndex }
  \cup { [Act("playCard") EXCEPT !.cardIndex = c] : c \in 0..MaxIndex }
  \cup { [Act("playEventInChallenge") EXCEPT !.cardIndex = c] : c \in 0..MaxIndex }
  \cup { [Act("playAbility") EXCEPT !.sourceInstanceId = u] : u \in StackIds(state, i) }
  \cup { [Act("resolveMission") EXCEPT !.missionInstanceId = u] : u \in StackIds(state, i) }
  \cup { [Act("challenge") EXCEPT !.challengerInstanceId = u, !.opponentIndex = 1 - i]
         : u \in StackIds(state, i) }
  \cup { [Act("defend") EXCEPT !.defenderInstanceId = u] : u \in StackIds(state, i) }
  \cup { [Act("challengeCylon") EXCEPT !.challengerInstanceId = u, !.threatIndex = k]
         : u \in StackIds(state, i), k \in 0..MaxIndex }

\* Player i sends an action getValidActions did not offer.
Stray ==
  \E i \in PlayerIdx :
    \E a \in AnyActions(State, i) \ LegalActions(State, i) :
      /\ last.legal
      /\ applied < MaxStrayDepth
      /\ UNCHANGED benchVars
      /\ \E r \in applyAction(State, i, a) : Install(r, i, a, FALSE)

NextAny == Next \/ Stray

SpecAny == Init /\ [][NextAny]_vars

\* ------------------------------------------------ the Cylon phase to its end
\* The count of applied actions after one more: past MaxActions only its
\* parity is kept, so that the states of a phase that goes on stay finite.
Counted(n) == IF n < MaxActions THEN n + 1 ELSE 2 * MaxActions + 1 - n

\* The result of an action of the Cylon phase becomes the state.  MaxActions
\* and MaxTurn bound the way into the phase, never the phase itself: its
\* actions are followed for as long as the code offers any.
InstallInCylon(r, i, a) ==
  /\ applied' = Counted(applied)
  /\ last' = [player |-> i, action |-> a, legal |-> TRUE]
  /\ instanceCounter' = r.instanceCounter
  /\ threw' = r.err
  /\ log' = r.log
  /\ IF r.err THEN UNCHANGED game
     ELSE /\ players' = r.players /\ phase' = r.phase /\ turn' = r.turn
          /\ readyStep' = r.readyStep /\ firstPlayerIndex' = r.firstPlayerIndex
          /\ activePlayerIndex' = r.activePlayerIndex
          /\ fleetDefenseLevel' = r.fleetDefenseLevel /\ challenge' = r.challenge
          /\ cylonThreats' = r.cylonThreats /\ winner' = r.winner

\* The Cylon phase offers some player an action.
CylonOffers == phase = "cylon" /\ \E i \in PlayerIdx : LegalActions(State, i) # {}

\* A player applies a legal action in the Cylon phase.
CylonStep ==
  /\ CylonOffers
  /\ UNCHANGED benchVars
  /\ \E i \in PlayerIdx :
       \E a \in LegalActions(State, i) :
         \E r \in applyAction(State, i, a) : InstallInCylon(r, i, a)

NextToEnd == Next \/ CylonStep

\* Games that come to a Cylon phase, one of them with a unit in the alert
\* zone, and a game with a mission.
EndGames ==
  { [base1 |-> "galactica", deck1 |-> <<"viper-mk2", "condition-one">>,
     base2 |-> "colonial-one", deck2 |-> <<"shuttle-diplomacy">>],
    [base1 |-> "galactica", deck1 |-> <<"viper-mk2">>,
     base2 |-> "colonial-one", deck2 |-> <<"press-junket", "condition-one">>] }

InitToEnd ==
  \E g \in EndGames :
    \E s \in createGame(bases[g.base1], g.deck1, bases[g.base2], g.deck2) :
      /\ players = s.players /\ phase = s.phase /\ turn = s.turn /\ readyStep = s.readyStep
      /\ firstPlayerIndex = s.firstPlayerIndex /\ activePlayerIndex = s.activePlayerIndex
      /\ fleetDefenseLevel = s.fleetDefenseLevel /\ challenge = s.challenge
      /\ cylonThreats = s.cylonThreats /\ log = s.log /\ winner = s.winner
      /\ instanceCounter = s.instanceCounter
      /\ applied = 0
      /\ last = [player |-> Absent, action |-> Act("createGame"), legal |-> TRUE]
      /\ threw = FALSE
      /\ OffBench

\* The server applies every action it receives, and the players keep acting
\* while the Cylon phase offers them an action.
SpecToEnd == InitToEnd /\ [][NextToEnd]_vars /\ WF_vars(CylonStep)

\* --------------------------------------------- actions with stale references
\* The instance ids that have left play: the cards of the discard piles.
GoneIds(state) ==
  {state.players[0].discard[k].instanceId : k \in 1..Len(state.players[0].discard)}
  \cup {state.players[1].discard[k].instanceId : k \in 1..Len(state.players[1].discard)}

\* The actions of player i that name a hand index, a unit or mission instance
\* id, or a threat index that the state does not hold.
StaleActions(state, i) ==
  LET noCard == Len(state.players[i].hand)
      noThreat == Len(state.cylonThreats)
      inPlay == {AllStacks(state.players[0])[k].cards[1].instanceId : k \in 1..Len(AllStacks(state.players[0]))}
                \cup {AllStacks(state.players[1])[k].cards[1].instanceId : k \in 1..Len(AllStacks(state.players[1]))}
  IN { [Act("playToResource") EXCEPT !.cardIndex = noCard],
       [Act("playCard") EXCEPT !.cardIndex = noCard],
       [Act("playEventInChallenge") EXCEPT !.cardIndex = noCard] }
     \cup { [Act("playAbility") EXCEPT !.sourceInstanceId = u] : u \in GoneIds(state) }
     \cup { [Act("resolveMission") EXCEPT !.missionInstanceId = u] : u \in GoneIds(state) }
     \cup { [Act("challenge") EXCEPT !.challengerInstanceId = u, !.opponentIndex = 1 - i]
            : u \in GoneIds(state) }
     \cup { [Act("defend") EXCEPT !.defenderInstanceId = u] : u \in GoneIds(state) }
     \cup { [Act("challengeCylon") EXCEPT !.challengerInstanceId = u, !.threatIndex = k]
            : u \in GoneIds(state), k \in 0..noThreat }
     \cup { [Act("challengeCylon") EXCEPT !.challengerInstanceId = u, !.threatIndex = noThreat]
            : u \in inPlay }

\* The player to act sends an action whose reference has gone stale.
Stale ==
  \E a \in StaleActions(State, activePlayerIndex) :
    /\ last.legal
    /\ UNCHANGED benchVars
    /\ \E r \in applyAction(State, activePlayerIndex, a) : Install(r, activePlayerIndex, a, FALSE)

NextStale == Next \/ Stale

SpecStale == Init /\ [][NextStale]_vars

\* ------------------------------------------------------- decks on the bench
\* The card ids of the catalogue the registries are cut from.
CatalogueIds ==
  <<"c01", "c02", "c03", "c04", "c05", "c06", "c07", "c08", "c09", "c10",
    "c11", "c12", "c13", "c14", "c15", "c16", "c17", "c18", "c19", "c20">>

\* Card k of a catalogue.  Card 2 carries the name of card 1 under its own
\* id; every third card has a title only, card 5 a subtitle only and card 7
\* neither.  In the "mixed" catalogue units and non-units alternate, in the
\* "units" catalogue the first ten cards are the units.
CatalogueCard(kind, k) ==
  DeckCard(CatalogueIds[k],
           IF k = 2 THEN CatalogueIds[1] ELSE IF k \in {5, 7} THEN "" ELSE CatalogueIds[k],
           IF k \in {5, 7} \/ k % 3 = 0 THEN (IF k = 5 THEN "solo" ELSE "") ELSE "sub",
           IF kind = "units"
           THEN (IF k <= 10 THEN (IF k % 2 = 1 THEN "personnel" ELSE "ship")
                 ELSE IF k % 2 = 1 THEN "event" ELSE "mission")
           ELSE IF k % 4 = 1 THEN "personnel" ELSE IF k % 4 = 2 THEN "event"
           ELSE IF k % 4 = 3 THEN "ship" ELSE "mission",
           IF k % 3 = 0 THEN "persuasion" ELSE IF k % 3 = 1 THEN "logistics" ELSE "security",
           IF k % 5 = 0 THEN [NoCost EXCEPT !.security = 2]
           ELSE IF k % 5 = 3 THEN [NoCost EXCEPT !.persuasion = 1] ELSE NoCost,
           2 * k,
           k % 3)

\* The registries: the first n cards of a catalogue, and one or two bases.
DeckRegistries ==
  { [bases |-> bs, cards |-> [k \in 1..n |-> CatalogueCard(kind, k)]]
    : bs \in {{"galactica"}, {"galactica", "colonial-one"}},
      kind \in {"mixed", "units"},
      n \in 0..MaxCards }

\* No game has been created: room.gameState is null.
NoGame ==
  /\ players = <<>> /\ phase = "" /\ turn = 0 /\ readyStep = 0
  /\ firstPlayerIndex = 0 /\ activePlayerIndex = 0 /\ fleetDefenseLevel = 0
  /\ challenge = Null /\ cylonThreats = <<>> /\ log = <<>> /\ winner = NoWinner
  /\ instanceCounter = 0 /\ applied = 0
  /\ last = [player |-> Absent, action |-> Act("none"), legal |-> TRUE]
  /\ threw = FALSE

\* n times the id.
Copies(id, n) == [k \in 1..n |-> id]

\* The decks a client submits: a number of copies of every card of the
\* registry (of every card but the second), more copies of the first card,
\* ids the registry does not have, under a base the registry has or not.
HumanSubmissions(reg) ==
  { [baseId |-> b,
     deckCardIds |->
       Flatten([k \in 1..Len(reg.cards) |->
                  IF k = 2 /\ skip THEN <<>> ELSE Copies(reg.cards[k].id, m)])
       \o (IF Len(reg.cards) > 0 THEN Copies(reg.cards[1].id, e) ELSE <<>>)
       \o SubSeq(<<"zz1", "zz2">>, 1, u)]
    : b \in {"galactica", "no-such-base"}, m \in {3, 4}, e \in {0, 1}, u \in {0, 2},
      skip \in BOOLEAN }

\* The benches the deck rules are tried on: one registry each.
InitDeck ==
  /\ registry \in DeckRegistries
  /\ deck = NoDeck
  /\ room = NoRoom
  /\ NoGame

\* The submitDeck handler validates the client's deck.
SubmitDeck ==
  /\ deck.source = "none"
  /\ \E submission \in HumanSubmissions(registry) :
       deck' = [source |-> "human", submission |-> submission,
                result |-> validateDeck(submission, registry)]
  /\ UNCHANGED <<registry, room, engineVars>>

\* The server builds the AI's deck.
BuildAIDeck ==
  /\ deck.source = "none"
  /\ \E submission \in buildAIDeck(registry) :
       deck' = [source |-> "ai", submission |-> submission, result |-> NoResult]
  /\ UNCHANGED <<registry, room, engineVars>>

\* The built deck is put to validateDeck.
ValidateAIDeck ==
  /\ deck.source = "ai" /\ deck.result = NoResult
  /\ deck' = [deck EXCEPT !.result = validateDeck(deck.submission, registry)]
  /\ UNCHANGED <<registry, room, engineVars>>

NextDeck == SubmitDeck \/ BuildAIDeck \/ ValidateAIDeck

SpecDeck == InitDeck /\ [][NextDeck]_vars

\* ---------------------------------------------------------- the AI player
\* makeAIDecision (src/server/src/ai-player.ts) reads the card definitions
\* from the registry the server loaded, the one the engine was given, and
\* reads a missing definition as power 0, no resource, no text.
\* The abilityText of a card is display text of the card database; it is
\* taken to say what the ability does: Fire Support and Outmaneuvered change
\* a unit's power, Shuttle Diplomacy costs influence, Condition One readies
\* units.  This tells whether the lower-cased text contains "power" or
\* "influence".
TextOnPowerOrInfluence(defId) ==
  defId \in {"fire-support", "outmaneuvered", "shuttle-diplomacy"}

\* actions.find(a => a.type === type): the first entry of the type, as a
\* list of at most one entry.
FirstOfType(actions, type) ==
  LET ks == Indices(actions, LAMBDA a : a.type = type)
  IN IF ks = <<>> THEN <<>> ELSE <<actions[ks[1]]>>

\* The defId of the top card of the player's alert or reserve stack with this
\* instance id: "" if there is none.
TopDefId(player, instanceId) ==
  LET found == findUnitInAnyZone(player, instanceId)
  IN IF found.zone = "" THEN "" ELSE TopCard(FoundStack(player, found)).defId

\* The first of the instance ids, among those on top of a stack of the
\* player, whose card has the greatest power: NoInstance if none is on top.
pickStrongestUnit(instanceIds, player) ==
  LET ks == Indices(instanceIds, LAMBDA u : findUnitInAnyZone(player, u).zone # "")
      power(k) == getCardDef(TopDefId(player, instanceIds[k])).power
      best == Indices(ks, LAMBDA k : \A n \in 1..Len(ks) :
                            power(ks[n]) <= power(k) /\ (ks[n] < k => power(ks[n]) < power(k)))
  IN IF ks = <<>> THEN NoInstance ELSE instanceIds[ks[best[1]]]

\* The score pickBestCardToPlay gives a card.
playScore(def) ==
  (IF isUnit(def) THEN 10 ELSE 0) + def.power * 3
  + (IF def.type = "mission" THEN 5 ELSE 0) + (IF def.type = "event" THEN 2 ELSE 0)

\* The hand index of the first card, over the entries and their indices in
\* order, with the greatest score among the cards the registry knows:
\* Absent if there is none.
pickBestCardToPlay(playActions, player) ==
  LET all == Flatten([n \in 1..Len(playActions) |-> playActions[n].selectableCardIndices])
      ks == Indices(all, LAMBDA c : HasCard(player, c) /\ KnownDef(player.hand[c + 1].defId))
      score(k) == playScore(getCardDef(player.hand[all[k] + 1].defId))
      best == Indices(ks, LAMBDA k : \A n \in 1..Len(ks) :
                            score(ks[n]) <= score(k) /\ (ks[n] < k => score(ks[n]) < score(k)))
  IN IF ks = <<>> THEN Absent ELSE all[ks[best[1]]]

\* resolveAction without doneReorder among the actions that carry nothing:
\* the default of the switch answers for it.
resolveActionNoReorder(action, playerIndex) ==
  CASE action.type \in {"keepHand", "redraw", "drawCards", "passResource",
                        "pass", "challengePass", "passCylon"} -> Act(action.type)
    [] action.type = "playCard" ->
         IF action.selectableCardIndices # <<>>
         THEN [Act("playCard") EXCEPT !.cardIndex = action.selectableCardIndices[1]]
         ELSE Act("pass")
    [] action.type = "playToResource" ->
         IF action.selectableCardIndices # <<>>
         THEN [Act("playToResource") EXCEPT !.cardIndex = action.selectableCardIndices[1]]
         ELSE Act("passResource")
    [] action.type = "playAbility" ->
         IF action.selectableInstanceIds # <<>>
         THEN [Act("playAbility") EXCEPT !.sourceInstanceId = action.selectableInstanceIds[1]]
         ELSE Act("pass")
    [] action.type = "resolveMission" ->
         IF action.selectableInstanceIds # <<>>
         THEN [Act("resolveMission") EXCEPT !.missionInstanceId = action.selectableInstanceIds[1]]
         ELSE Act("pass")
    [] action.type = "challenge" ->
         IF action.selectableInstanceIds # <<>>
         THEN [Act("challenge") EXCEPT !.challengerInstanceId = action.selectableInstanceIds[1],
                                       !.opponentIndex = 1 - playerIndex]
         ELSE Act("pass")
    [] action.type = "defend" ->
         IF action.selectableInstanceIds # <<>>
         THEN [Act("defend") EXCEPT !.defenderInstanceId = action.selectableInstanceIds[1]]
         ELSE Act("defend")
    [] action.type = "playEventInChallenge" ->
         IF action.selectableCardIndices # <<>>
         THEN [Act("playEventInChallenge") EXCEPT !.cardIndex = action.selectableCardIndices[1]]
         ELSE Act("challengePass")
    [] action.type = "challengeCylon" ->
         IF action.selectableInstanceIds # <<>> /\ action.selectableThreatIndices # <<>>
         THEN [Act("challengeCylon") EXCEPT !.challengerInstanceId = action.selectableInstanceIds[1],
                                            !.threatIndex = action.selectableThreatIndices[1]]
         ELSE Act("passCylon")
    [] OTHER -> Act("pass")

\* The concrete action resolveAction makes of an entry.  No description of an
\* entry of getValidActions contains "supply", so asSupply is false.
resolveAction(action, playerIndex) ==
  CASE action.type \in {"keepHand", "redraw", "drawCards", "passResource", "doneReorder",
                        "pass", "challengePass", "passCylon"} -> Act(action.type)
    [] action.type = "playCard" ->
         IF action.selectableCardIndices # <<>>
         THEN [Act("playCard") EXCEPT !.cardIndex = action.selectableCardIndices[1]]
         ELSE Act("pass")
    [] action.type = "playToResource" ->
         IF action.selectableCardIndices # <<>>
         THEN [Act("playToResource") EXCEPT !.cardIndex = action.selectableCardIndices[1]]
         ELSE Act("passResource")
    [] action.type = "playAbility" ->
         IF action.selectableInstanceIds # <<>>
         THEN [Act("playAbility") EXCEPT !.sourceInstanceId = action.selectableInstanceIds[1]]
         ELSE Act("pass")
    [] action.type = "resolveMission" ->
         IF action.selectableInstanceIds # <<>>
         THEN [Act("resolveMission") EXCEPT !.missionInstanceId = action.selectableInstanceIds[1]]
         ELSE Act("pass")
    [] action.type = "challenge" ->
         IF action.selectableInstanceIds # <<>>
         THEN [Act("challenge") EXCEPT !.challengerInstanceId = action.selectableInstanceIds[1],
                                       !.opponentIndex = 1 - playerIndex]
         ELSE Act("pass")
    [] action.type = "defend" ->
         IF action.selectableInstanceIds # <<>>
         THEN [Act("defend") EXCEPT !.defenderInstanceId = action.selectableInstanceIds[1]]
         ELSE Act("defend")
    [] action.type = "playEventInChallenge" ->
         IF action.selectableCardIndices # <<>>
         THEN [Act("playEventInChallenge") EXCEPT !.cardIndex = action.selectableCardIndices[1]]
         ELSE Act("challengePass")
    [] action.type = "challengeCylon" ->
         IF action.selectableInstanceIds # <<>> /\ action.selectableThreatIndices # <<>>
         THEN [Act("challengeCylon") EXCEPT !.challengerInstanceId = action.selectableInstanceIds[1],
                                            !.threatIndex = action.selectableThreatIndices[1]]
         ELSE Act("passCylon")
    [] OTHER -> Act("pass")

decideResourcePlay(actions, state, playerIndex) ==
  LET player == state.players[playerIndex]
      baseDef == bases[player.baseDefId]
      deploy == FirstOfType(actions, "playToResource")
      idxs == IF deploy = <<>> THEN <<>> ELSE deploy[1].selectableCardIndices
      held == SelectSeq(idxs, LAMBDA c : HasCard(player, c))
      matching == SelectSeq(held, LAMBDA c : KnownDef(player.hand[c + 1].defId)
                     /\ getCardDef(player.hand[c + 1].defId).resource = baseDef.resource)
      producing == SelectSeq(held, LAMBDA c : getCardDef(player.hand[c + 1].defId).resource # "")
  IN IF deploy = <<>> THEN Act("passResource")
     ELSE IF matching # <<>> THEN [Act("playToResource") EXCEPT !.cardIndex = matching[1]]
     ELSE IF producing # <<>> THEN [Act("playToResource") EXCEPT !.cardIndex = producing[1]]
     ELSE IF deploy[1].selectableStackIndices # <<>>
     THEN [Act("playToResource") EXCEPT !.cardIndex = IF idxs = <<>> THEN Absent ELSE idxs[1],
                                        !.asSupply = TRUE,
                                        !.targetStackIndex = deploy[1].selectableStackIndices[1]]
     ELSE Act("passResource")

decideExecution(actions, state, playerIndex) ==
  LET player == state.players[playerIndex]
      playActions == SelectSeq(actions, LAMBDA a : a.type = "playCard")
      bestPlay == pickBestCardToPlay(playActions, player)
      mission == FirstOfType(actions, "resolveMission")
      chall == FirstOfType(actions, "challenge")
      bestChallenger == IF chall = <<>> THEN NoInstance
                        ELSE pickStrongestUnit(chall[1].selectableInstanceIds, player)
      ability == FirstOfType(actions, "playAbility")
  IN IF bestPlay # Absent THEN [Act("playCard") EXCEPT !.cardIndex = bestPlay]
     ELSE IF mission # <<>> THEN resolveAction(mission[1], playerIndex)
     ELSE IF /\ bestChallenger # NoInstance
             /\ KnownDef(TopDefId(player, bestChallenger))
             /\ getCardDef(TopDefId(player, bestChallenger)).power >= 2
     THEN [Act("challenge") EXCEPT !.challengerInstanceId = bestChallenger,
                                   !.opponentIndex = 1 - playerIndex]
     ELSE IF ability # <<>> /\ ability[1].selectableInstanceIds # <<>>
     THEN resolveAction(ability[1], playerIndex)
     ELSE Act("pass")

decideDefend(actions, state, playerIndex) ==
  LET player == state.players[playerIndex]
      challengerPower ==
        getCardDef(TopDefId(state.players[state.challenge.challengerPlayerIndex],
                            state.challenge.challengerInstanceId)).power
      ks == Indices(actions, LAMBDA a : a.type = "defend" /\ a.selectableInstanceIds # <<>>)
      bestDefender == IF ks = <<>> THEN NoInstance
                      ELSE pickStrongestUnit(actions[ks[1]].selectableInstanceIds, player)
  IN IF state.challenge = Null THEN Act("defend")
     ELSE IF /\ bestDefender # NoInstance
             /\ getCardDef(TopDefId(player, bestDefender)).power >= challengerPower - 1
     THEN [Act("defend") EXCEPT !.defenderInstanceId = bestDefender]
     ELSE Act("defend")

\* Only the first playEventInChallenge entry is looked at, and each entry of
\* getChallengeActions selects one card.
decideChallengeEffects(actions, state, playerIndex) ==
  LET player == state.players[playerIndex]
      event == FirstOfType(actions, "playEventInChallenge")
      idxs == IF event = <<>> THEN <<>> ELSE event[1].selectableCardIndices
      good == SelectSeq(idxs, LAMBDA c : /\ HasCard(player, c)
                                         /\ KnownDef(player.hand[c + 1].defId)
                                         /\ TextOnPowerOrInfluence(player.hand[c + 1].defId))
  IN IF good # <<>> THEN [Act("playEventInChallenge") EXCEPT !.cardIndex = good[1]]
     ELSE Act("challengePass")

\* The threats are tried from the weakest (of equals, the first listed).
decideCylonPhase(actions, state, playerIndex) ==
  LET player == state.players[playerIndex]
      chall == FirstOfType(actions, "challengeCylon")
      ok == chall # <<>> /\ chall[1].selectableInstanceIds # <<>>
                         /\ chall[1].selectableThreatIndices # <<>>
      bestUnit == IF ok THEN pickStrongestUnit(chall[1].selectableInstanceIds, player) ELSE NoInstance
      unitPower == getCardDef(TopDefId(player, bestUnit)).power
      threatPower(t) == IF t >= 0 /\ t < Len(state.cylonThreats) THEN state.cylonThreats[t + 1].power ELSE 0
      beatable == IF ok THEN SelectSeq(chall[1].selectableThreatIndices,
                                       LAMBDA t : unitPower >= threatPower(t) - 2)
                  ELSE <<>>
      weakest == Indices(beatable, LAMBDA t :
                           \A n \in 1..Len(beatable) : threatPower(beatable[n]) >= threatPower(t))
  IN IF bestUnit # NoInstance /\ beatable # <<>>
     THEN [Act("challengeCylon") EXCEPT !.challengerInstanceId = bestUnit,
                                        !.threatIndex = beatable[weakest[1]]]
     ELSE Act("passCylon")

makeAIDecision(state, playerIndex, validActions) ==
  IF validActions = <<>> THEN Act("pass")
  ELSE IF Len(validActions) = 1 THEN resolveAction(validActions[1], playerIndex)
  ELSE IF state.phase = "setup" THEN Act("keepHand")
  ELSE IF state.phase = "ready" /\ state.readyStep = 3 THEN Act("drawCards")
  ELSE IF state.phase = "ready" /\ state.readyStep = 4
  THEN decideResourcePlay(validActions, state, playerIndex)
  ELSE IF state.phase = "ready" /\ state.readyStep = 5 THEN Act("doneReorder")
  ELSE IF /\ state.challenge # Null /\ state.challenge.waitingForDefender
          /\ state.challenge.defenderPlayerIndex = playerIndex
  THEN decideDefend(validActions, state, playerIndex)
  ELSE IF state.challenge # Null /\ state.challenge.step = 2
  THEN decideChallengeEffects(validActions, state, playerIndex)
  ELSE IF state.phase = "cylon" THEN decideCylonPhase(validActions, state, playerIndex)
  ELSE IF state.phase = "execution" THEN decideExecution(validActions, state, playerIndex)
  ELSE resolveAction(validActions[1], playerIndex)

\* ------------------------------------------------------- the victory check
\* checkVictory is called on states of a game in its execution phase whose
\* players have any influence from InfluenceSlack below the loss to
\* InfluenceSlack above the win.
Influences == (LoseInfluence - InfluenceSlack)..(WinInfluence + InfluenceSlack)

InitVictory ==
  \E s \in createGame(bases["galactica"], <<"viper-mk2">>, bases["colonial-one"], <<"shuttle-diplomacy">>) :
    \E x \in Influences : \E y \in Influences :
      /\ players = [i \in PlayerIdx |-> [s.players[i] EXCEPT !.influence = IF i = 0 THEN x ELSE y]]
      /\ phase = "execution" /\ turn = 1 /\ readyStep = s.readyStep
      /\ firstPlayerIndex = s.firstPlayerIndex /\ activePlayerIndex = s.activePlayerIndex
      /\ fleetDefenseLevel = s.fleetDefenseLevel /\ challenge = s.challenge
      /\ cylonThreats = s.cylonThreats /\ log = <<>> /\ winner = s.winner
      /\ instanceCounter = s.instanceCounter
      /\ applied = 0
      /\ last = [player |-> Absent, action |-> Act("createGame"), legal |-> TRUE]
      /\ threw = FALSE
      /\ OffBench

\* checkVictory(s, log) is called once on the state.
CheckVictory ==
  /\ applied = 0
  /\ LET r == checkVictory(Cloned) IN
       /\ players' = r.players /\ phase' = r.phase /\ winner' = r.winner /\ log' = r.log
  /\ applied' = 1
  /\ last' = [player |-> Absent, action |-> Act("checkVictory"), legal |-> TRUE]
  /\ UNCHANGED <<turn, readyStep, firstPlayerIndex, activePlayerIndex, fleetDefenseLevel,
                 challenge, cylonThreats, instanceCounter, threw, benchVars>>

SpecVictory == InitVictory /\ [][CheckVictory]_vars

\* ------------------------------------------------------------ the server
\* One room of the server (src/server/src/index.ts): the client is player 0,
\* the AI player 1.  A message handler or a timer callback runs to its end or
\* to the await of the processAITurns loop it runs, before the next starts:
\* while room.active, only the loop takes steps.
HUMAN_PLAYER_INDEX == 0
AI_PLAYER_INDEX == 1

\* The submissions the room is started with: the decks stand for a client's
\* deck that validateDeck accepted and for the deck buildAIDeck returned.
RoomGames ==
  { [base1 |-> "galactica", deck1 |-> <<"viper-mk2">>,
     base2 |-> "colonial-one", deck2 |-> <<"press-junket", "condition-one">>],
    [base1 |-> "colonial-one", deck1 |-> <<"viper-mk2", "condition-one", "shuttle-diplomacy">>,
     base2 |-> "galactica", deck2 |-> <<"shuttle-diplomacy">>] }

\* The test of processAITurns that it is the AI's turn to act.
isAITurn(state) ==
  \/ state.activePlayerIndex = AI_PLAYER_INDEX
  \/ state.phase = "setup"
  \/ /\ state.challenge # Null
     /\ state.challenge.waitingForDefender
     /\ state.challenge.defenderPlayerIndex = AI_PLAYER_INDEX
  \/ /\ state.challenge # Null
     /\ state.challenge.step = 2
     /\ state.activePlayerIndex = AI_PLAYER_INDEX

\* room.gameState = r after one more call of applyAction, made for player i.
SetGameState(r, i, a) ==
  /\ applied' = applied + 1
  /\ last' = [player |-> i, action |-> a, legal |-> TRUE]
  /\ threw' = FALSE
  /\ log' = r.log
  /\ instanceCounter' = r.instanceCounter
  /\ players' = r.players /\ phase' = r.phase /\ turn' = r.turn
  /\ readyStep' = r.readyStep /\ firstPlayerIndex' = r.firstPlayerIndex
  /\ activePlayerIndex' = r.activePlayerIndex
  /\ fleetDefenseLevel' = r.fleetDefenseLevel /\ challenge' = r.challenge
  /\ cylonThreats' = r.cylonThreats /\ winner' = r.winner

\* A call of applyAction threw: the catch keeps room.gameState.
KeepGameState(i, a) ==
  /\ applied' = applied + 1
  /\ last' = [player |-> i, action |-> a, legal |-> TRUE]
  /\ threw' = TRUE
  /\ UNCHANGED <<game, log, instanceCounter>>

\* The processAITurns loops in progress: the suspended ones and the active one.
LoopsInProgress == room.waiting + (IF room.active THEN 1 ELSE 0)

\* A handler calls processAITurns: room.aiProcessing is set and the loop starts.
LoopStarted(event, humanActed) ==
  [room EXCEPT !.hasGame = TRUE, !.aiProcessing = TRUE, !.active = TRUE,
               !.event = event, !.actionInLoop = humanActed /\ room.waiting > 0]

InitServer ==
  /\ NoGame
  /\ registry = NoRegistry /\ deck = NoDeck
  /\ room = NoRoom

\* The submitDeck message with a valid deck: startGame creates the game and
\* calls processAITurns.
RoomSubmitDeck ==
  /\ ~room.active
  /\ room.submits < MaxSubmits
  /\ \E g \in RoomGames :
       \E s \in createGame(bases[g.base1], g.deck1, bases[g.base2], g.deck2) :
         /\ players' = s.players /\ phase' = s.phase /\ turn' = s.turn
         /\ readyStep' = s.readyStep /\ firstPlayerIndex' = s.firstPlayerIndex
         /\ activePlayerIndex' = s.activePlayerIndex
         /\ fleetDefenseLevel' = s.fleetDefenseLevel /\ challenge' = s.challenge
         /\ cylonThreats' = s.cylonThreats /\ log' = s.log /\ winner' = s.winner
         /\ instanceCounter' = s.instanceCounter
  /\ last' = [player |-> Absent, action |-> Act("createGame"), legal |-> TRUE]
  /\ threw' = FALSE
  /\ room' = [LoopStarted("submitDeck", FALSE) EXCEPT !.submits = @ + 1]
  /\ UNCHANGED <<applied, registry, deck>>

\* The action message: refused without a game or while room.aiProcessing is
\* set; otherwise the action is applied for the human, and unless it threw,
\* processAITurns is called.
RoomAction ==
  /\ ~room.active
  /\ room.hasGame /\ ~room.aiProcessing
  /\ applied < MaxRoomCalls
  /\ \E a \in LegalActions(State, HUMAN_PLAYER_INDEX) :
       \E r \in applyAction(State, HUMAN_PLAYER_INDEX, a) :
         IF r.err
         THEN /\ KeepGameState(HUMAN_PLAYER_INDEX, a)
              /\ room' = [room EXCEPT !.event = "action", !.actionInLoop = FALSE]
         ELSE /\ SetGameState(r, HUMAN_PLAYER_INDEX, a)
              /\ room' = LoopStarted("action", TRUE)
  /\ UNCHANGED <<registry, deck>>

\* The loop of processAITurns ends: room.aiProcessing is cleared.
LoopEnded == [room EXCEPT !.active = FALSE, !.aiProcessing = FALSE]

\* One pass of the while loop of processAITurns: the loop ends when the game
\* is over, the AI has no valid action or it is not the AI's turn; otherwise
\* the AI's decision is applied and
\* the loop ends if that threw, awaits waitForContinue if entries were logged
\* outside the setup phase, and goes round again if not.  The bound of 100
\* passes (MAX_ITERATIONS) is not reached in a room followed for MaxRoomCalls.
AITurn ==
  /\ room.active
  /\ \E st \in {State} : \E aiActions \in {getValidActions(st, AI_PLAYER_INDEX)} :
       IF \/ phase = "gameOver"
          \/ aiActions = <<>>
          \/ ~isAITurn(st)
       THEN /\ room' = LoopEnded
            /\ UNCHANGED engineVars
       ELSE \E decision \in {makeAIDecision(st, AI_PLAYER_INDEX, aiActions)} :
              \E r \in applyAction(st, AI_PLAYER_INDEX, decision) :
                IF r.err
                THEN /\ KeepGameState(AI_PLAYER_INDEX, decision)
                     /\ room' = LoopEnded
                ELSE /\ SetGameState(r, AI_PLAYER_INDEX, decision)
                     /\ room' = IF r.phase # "setup" /\ r.log # <<>>
                                THEN [room EXCEPT !.active = FALSE, !.waiting = @ + 1,
                                                  !.continueResolve = TRUE]
                                ELSE room
  /\ UNCHANGED <<registry, deck>>

\* A suspended loop takes up its work: its promise was resolved, and the
\* resolver and the timer both clear room.continueResolve.
LoopResumed(event) ==
  [room EXCEPT !.active = TRUE, !.waiting = @ - 1, !.continueResolve = FALSE,
               !.event = event, !.actionInLoop = FALSE]

\* The continue message calls room.continueResolve, if set: the loop that
\* set it goes on.
RoomContinue ==
  /\ ~room.active
  /\ room.continueResolve
  /\ applied < MaxRoomCalls
  /\ room' = LoopResumed("continue")
  /\ UNCHANGED <<engineVars, registry, deck>>

\* The timer of a suspended loop fires (CONTINUE_TIMEOUT_MS after its await):
\* that loop goes on.
RoomTimeout ==
  /\ ~room.active
  /\ room.waiting > 0
  /\ applied < MaxRoomCalls
  /\ room' = LoopResumed("timeout")
  /\ UNCHANGED <<engineVars, registry, deck>>

NextServer == RoomSubmitDeck \/ RoomAction \/ AITurn \/ RoomContinue \/ RoomTimeout

SpecServer == InitServer /\ [][NextServer]_vars

\* The action message as the handler takes it: the client's action goes to
\* applyAction without a look at getValidActions, so the human can send any
\* GameAction.
RoomActionAny ==
  /\ ~room.active
  /\ room.hasGame /\ ~room.aiProcessing
  /\ applied < MaxStrayCalls
  /\ \E st \in {State} :
       \E a \in AnyActions(st, HUMAN_PLAYER_INDEX) :
         \E r \in applyAction(st, HUMAN_PLAYER_INDEX, a) :
           IF r.err
           THEN /\ KeepGameState(HUMAN_PLAYER_INDEX, a)
                /\ room' = [room EXCEPT !.event = "action", !.actionInLoop = FALSE]
           ELSE /\ SetGameState(r, HUMAN_PLAYER_INDEX, a)
                /\ room' = LoopStarted("action", TRUE)
  /\ UNCHANGED <<registry, deck>>

NextServerAny == RoomSubmitDeck \/ RoomActionAny \/ AITurn \/ RoomContinue \/ RoomTimeout

SpecServerAny == InitServer /\ [][NextServerAny]_vars

\* =============================================================== properties
\* Every CardInstance held by player p: hand, deck, discard, the cards of the
\* alert and reserve stacks, and the top and supply cards of the resource stacks.
CardsOfPlayer(p) ==
  p.hand \o p.deck \o p.discard
  \o Flatten([k \in 1..Len(AllStacks(p)) |-> AllStacks(p)[k].cards])
  \o Flatten([k \in 1..Len(p.zones.resourceStacks) |->
                <<p.zones.resourceStacks[k].topCard>> \o p.zones.resourceStacks[k].supplyCards])

\* Every place of the game that holds a CardInstance, as one list.
AllCards(ps, threats) ==
  CardsOfPlayer(ps[0]) \o CardsOfPlayer(ps[1]) \o [k \in 1..Len(threats) |-> threats[k].card]

CardCount(ps, threats) == Len(AllCards(ps, threats))

\* C1. Card conservation: no applyAction call, whatever action either player
\* sends (legal or not), lowers the number of CardInstances held across the
\* hands, decks, discards, unit stacks, resource stacks and cylonThreats.
C1_CardConservation ==
  [][CardCount(players', cylonThreats') >= CardCount(players, cylonThreats)]_vars

\* C2. Exclusive ownership: in every reachable state no instanceId is held in
\* two places at once (hand, deck, discard, a stack, a resource stack, or
\* the cylonThreats list).
C2_ExclusiveOwnership ==
  \A m, n \in 1..CardCount(players, cylonThreats) :
    m # n => AllCards(players, cylonThreats)[m].instanceId
               # AllCards(players, cylonThreats)[n].instanceId

\* C3. Legal actions never raise: applyAction does not throw on an action
\* built from an entry of getValidActions with that entry's selectable values.
C3_LegalNeverRaises == last.legal => ~threw

\* A legal pass ran into a Cylon attack, where every revealed card is looked up.
C3_Witness ==
  /\ last.legal /\ ~threw
  /\ last.action.type = "pass"
  /\ \E k \in 1..Len(log) : log[k] = "reveals as Cylon threat"

\* The states that differ from state only in which cards the opponent of
\* player i holds in hand and in the order of the two decks.
ForeignCard(k) == [instanceId |-> 100 + k, defId |-> "outmaneuvered", faceUp |-> TRUE]

ViewVariants(state, i) ==
  LET hand == state.players[1 - i].hand
  IN { [state EXCEPT !.players[1 - i].hand = h, !.players[0].deck = d0, !.players[1].deck = d1]
       : h \in Perms(hand) \cup {[k \in 1..Len(hand) |-> ForeignCard(k)]},
         d0 \in Perms(state.players[0].deck),
         d1 \in Perms(state.players[1].deck) }

\* C4. View non-interference: getPlayerView(S, i) is the same for all states
\* that differ only in the identities of the opponent's hand cards and in the
\* order of either deck; the opponent's hand, deck and discard and the
\* viewer's own deck appear in it as counts only.
C4_ViewNonInterference ==
  \A i \in PlayerIdx :
    /\ \A v \in ViewVariants(State, i) : getPlayerView(v, i) = getPlayerView(State, i)
    /\ DOMAIN getPlayerView(State, i).opponent
         = {"zones", "handCount", "deckCount", "discardCount", "influence"}
    /\ DOMAIN getPlayerView(State, i).you
         = {"playerIndex", "zones", "hand", "deckCount", "discardCount", "influence"}

\* A state with a variant that differs from it in the opponent's hand and in a deck order.
C4_Witness ==
  \E i \in PlayerIdx :
    /\ Len(players[1 - i].hand) >= 1
    /\ Len(players[i].deck) >= 2
    /\ \E v \in ViewVariants(State, i) :
         v.players[1 - i].hand # players[1 - i].hand /\ v.players[i].deck # players[i].deck

\* The winner checkVictory owes to the influences in ps, if any.
Decided(ps) == \E i \in PlayerIdx : ps[i].influence >= WinInfluence \/ ps[i].influence <= LoseInfluence

Winners(ps) ==
  IF \E i \in PlayerIdx : ps[i].influence >= WinInfluence
  THEN {i \in PlayerIdx : ps[i].influence >= WinInfluence}
  ELSE {1 - i : i \in {j \in PlayerIdx : ps[j].influence <= LoseInfluence}}

\* C5. Victory check after every action: when an applyAction call on a state
\* whose phase is not gameOver leaves a player at influence >= 20 or <= 0, the
\* resulting phase is gameOver and winner is set accordingly.
C5_VictoryAfterEveryAction ==
  [][(phase # "gameOver" /\ ~threw' /\ Decided(players'))
       => (phase' = "gameOver" /\ winner' \in Winners(players'))]_vars

\* What C6 says stays as it is: of each player the influence, hand, deck,
\* discard and zones.
Held(ps) ==
  [i \in PlayerIdx |-> [influence |-> ps[i].influence, hand |-> ps[i].hand, deck |-> ps[i].deck,
                        discard |-> ps[i].discard, zones |-> ps[i].zones]]

\* C6. gameOver is terminal: applyAction on a state whose phase is gameOver,
\* with any action by any player, leaves phase, winner, activePlayerIndex,
\* turn, challenge and each player's influence, hand, deck, discard and zones
\* unchanged.
C6_GameOverTerminal ==
  [][phase = "gameOver"
       => (/\ UNCHANGED <<phase, winner, activePlayerIndex, turn, challenge>>
           /\ Held(players') = Held(players))]_vars

\* The mulligan entries getValidActions offers player i.
MulliganOffers(i) == LegalOf(i, "keepHand") \cup LegalOf(i, "redraw")

\* C7. Setup completes only when both players have acted: an action applied
\* in setup is a keepHand or redraw of a player who had not acted yet; the
\* phase becomes ready (turn 1) in its result exactly when both players then
\* have hasMulliganed, and stays setup otherwise; a player who has acted is
\* offered neither keepHand nor redraw.
C7_SetupCompletes ==
  [][phase = "setup" =>
       /\ \A i \in PlayerIdx : players[i].hasMulliganed => MulliganOffers(i) = {}
       /\ last'.action.type \in {"keepHand", "redraw"}
       /\ ~players[last'.player].hasMulliganed /\ players'[last'.player].hasMulliganed
       /\ players'[1 - last'.player].hasMulliganed = players[1 - last'.player].hasMulliganed
       /\ IF \A i \in PlayerIdx : players'[i].hasMulliganed
          THEN phase' = "ready" /\ turn' = 1
          ELSE phase' = "setup" /\ turn' = 0]_vars

\* The second player's keepHand or redraw has started turn 1.
C7_Witness ==
  /\ last.action.type \in {"keepHand", "redraw"}
  /\ phase = "ready" /\ turn = 1
  /\ \A i \in PlayerIdx : players[i].hasMulliganed

PhaseOrder ==
  {<<"setup", "ready">>, <<"ready", "execution">>, <<"execution", "cylon">>,
   <<"cylon", "ready">>, <<"execution", "ready">>,
   <<"execution", "gameOver">>, <<"cylon", "gameOver">>}

\* C8. Phase order: under legal actions an applyAction call keeps the phase
\* or moves it along setup->ready, ready->execution, execution->cylon,
\* cylon->ready, execution->ready, or from execution or cylon to gameOver; turn
\* grows by exactly 1 when a ready phase is entered and is unchanged otherwise.
C8_PhaseOrder ==
  [][/\ phase' = phase \/ <<phase, phase'>> \in PhaseOrder
     /\ turn' = IF phase # "ready" /\ phase' = "ready" THEN turn + 1 ELSE turn]_vars

\* A pass in the Cylon phase has ended turn 1 and started the ready phase of turn 2.
C8_Witness ==
  /\ last.action.type = "passCylon"
  /\ phase = "ready" /\ turn = 2

\* C9. Execution ends exactly on two consecutive passes: with no challenge
\* open, a pass leaves the execution phase if and only if the action before
\* it was a pass of the other player; playCard, playAbility, resolveMission
\* and challenge set both players' consecutivePasses to 0.
C9_TwoPassesEndExecution ==
  [][(phase = "execution" /\ challenge = Null /\ ~threw') =>
       /\ last'.action.type = "pass" =>
            (phase' # "execution" <=> (last.action.type = "pass" /\ last.player # last'.player))
       /\ last'.action.type \in {"playCard", "playAbility", "resolveMission", "challenge"} =>
            \A j \in PlayerIdx : players'[j].consecutivePasses = 0]_vars

\* The second of two consecutive passes has started a Cylon phase with threats.
C9_Witness ==
  /\ last.action.type = "pass"
  /\ phase = "cylon" /\ Len(cylonThreats) > 0

\* C10. Turn alternation in execution: with no challenge open, after the
\* active player's legal playCard, playAbility, resolveMission or pass that
\* leaves the game in the execution phase, the other player is active.
C10_TurnAlternation ==
  [][(/\ phase = "execution" /\ challenge = Null
      /\ last'.legal /\ ~threw'
      /\ last'.player = activePlayerIndex
      /\ last'.action.type \in {"playCard", "playAbility", "resolveMission", "pass"}
      /\ phase' = "execution")
       => activePlayerIndex' = 1 - activePlayerIndex]_vars

\* A mission was resolved in the execution phase and the turn went to the other player.
C10_Witness ==
  /\ last.action.type = "resolveMission"
  /\ phase = "execution" /\ challenge = Null
  /\ activePlayerIndex = 1 - last.player

\* C11. Turn after a challenge: when an applyAction call resolves and clears
\* a player-vs-player challenge of the execution phase and the game is not
\* over, the active player of the result is the opponent of the player who
\* initiated the challenge.
C11_TurnAfterChallenge ==
  [][(/\ challenge # Null /\ challenge' = Null
      /\ ~challenge.isCylonChallenge
      /\ ~threw' /\ phase' # "gameOver")
       => activePlayerIndex' = 1 - challenge.challengerPlayerIndex]_vars

\* C12. The effects round ends on two consecutive passes only: in step 2 of a
\* challenge, a challengePass resolves the challenge if and only if the action
\* before it was a challengePass of the other side, and a
\* playEventInChallenge or playAbility applied in the round leaves
\* challenge.consecutivePasses at 0.
C12_EffectsRoundEnds ==
  [][(challenge # Null /\ challenge.step = 2 /\ ~threw') =>
       /\ last'.action.type = "challengePass" =>
            (challenge' = Null
               <=> (last.action.type = "challengePass" /\ last.player # last'.player))
       /\ (last'.action.type \in {"playEventInChallenge", "playAbility"} /\ challenge' # Null)
            => challenge'.consecutivePasses = 0]_vars

\* The challengePass being applied ends the effects round of the open challenge.
Resolving ==
  /\ challenge # Null /\ challenge.step = 2
  /\ challenge.consecutivePasses + 1 >= PassesToEnd
  /\ last'.action.type = "challengePass" /\ ~threw'

\* The challenger's [zone, index] among the challenging player's stacks.
ChallengerFound == findUnitInAnyZone(players[challenge.challengerPlayerIndex], challenge.challengerInstanceId)

\* C13. Undefended resolution: when a challenge whose defender declined
\* resolves and the challenger is still in play, the defending player loses
\* exactly the challenger's top-card power plus challengerPowerBuff, the
\* challenger's stack moves from alert to reserve (and stays in reserve if it
\* is there already), no other unit changes zone, and challenge becomes null.
C13_UndefendedResolution ==
  [][(/\ Resolving /\ ~challenge.isCylonChallenge
      /\ challenge.defenderInstanceId = NoInstance
      /\ ChallengerFound.zone # "")
       => LET ai == challenge.challengerPlayerIndex
              di == challenge.defenderPlayerIndex
              stack == FoundStack(players[ai], ChallengerFound)
          IN /\ players'[di].influence
                  = players[di].influence - (getCardDef(TopCard(stack).defId).power + challenge.challengerPowerBuff)
             /\ players'[ai].influence = players[ai].influence
             /\ IF ChallengerFound.zone = "alert"
                THEN /\ players'[ai].zones.alert = RemoveAt(players[ai].zones.alert, ChallengerFound.index)
                     /\ players'[ai].zones.reserve = Append(players[ai].zones.reserve, stack)
                ELSE players'[ai].zones = players[ai].zones
             /\ players'[di].zones = players[di].zones
             /\ challenge' = Null]_vars

\* An undefended challenge by Apollo (power 2) that Fire Support raised by 2
\* has resolved: the defending player is 4 below the starting influence.
C13_Witness ==
  /\ last.action.type = "challengePass" /\ challenge = Null
  /\ \E k \in 1..Len(log) : log[k] = "Undefended!"
  /\ \E i \in PlayerIdx :
       /\ players[i].influence = bases[players[i].baseDefId].startingInfluence - 4
       /\ \E k \in 1..Len(players[1 - i].discard) : players[1 - i].discard[k].defId = "fire-support"
       /\ \E k \in 1..Len(players[1 - i].zones.reserve) :
            TopCard(players[1 - i].zones.reserve[k]).defId = "apollo-ace"

\* C14. Challenge scenario: with bases of power 4 and 3 (fleetDefenseLevel 7),
\* when an undefended challenge by a challenger of power 3, no power change,
\* whose player reveals mystic value 2 from the deck resolves, the defending
\* player's influence drops by the total 5 (10 becomes 5).
C14_ChallengeScenario ==
  [][(/\ Resolving /\ ~challenge.isCylonChallenge
      /\ challenge.defenderInstanceId = NoInstance
      /\ fleetDefenseLevel = 7
      /\ ChallengerFound.zone # ""
      /\ getUnitPower(FoundStack(players[challenge.challengerPlayerIndex], ChallengerFound)) = 3
      /\ challenge.challengerPowerBuff = 0
      /\ \A r \in revealMysticValue(Cloned, challenge.challengerPlayerIndex) : r.value = 2)
       => players'[challenge.defenderPlayerIndex].influence
            = players[challenge.defenderPlayerIndex].influence - 5]_vars

\* The defender's [zone, index] among the defending player's stacks.
DefenderFound == findUnitInAnyZone(players[challenge.defenderPlayerIndex], challenge.defenderInstanceId)

\* Player p's discard pile right after p revealed a mystic value in the step
\* being taken: the deck top put on the pile, or, with an empty deck, the
\* pile reshuffled into the deck and its new top put on the emptied pile.
AfterReveal(p) ==
  IF Len(players[p].deck) > 0 THEN Append(players[p].discard, Head(players[p].deck))
  ELSE IF Len(players[p].discard) > 0 THEN <<players'[p].discard[1]>>
  ELSE <<>>

\* The mystic value p revealed in the step being taken (0 with nothing to reveal).
Revealed(p) ==
  IF AfterReveal(p) = <<>> THEN 0
  ELSE getCardDef(AfterReveal(p)[Len(AfterReveal(p))].defId).mysticValue

\* The card p revealed came off p's own deck: off its top, or off the
\* reshuffled discard pile, whose other cards are the deck afterwards.
RevealedOwnTop(p) ==
  IF Len(players[p].deck) > 0 THEN players'[p].deck = Tail(players[p].deck)
  ELSE IF Len(players[p].discard) > 0
  THEN <<players'[p].discard[1]>> \o players'[p].deck \in Perms(players[p].discard)
  ELSE players'[p].deck = <<>>

\* C15. Defended resolution: when a defended challenge resolves with both
\* units in play, each side's total is its top-card power plus its buff plus
\* the mystic value revealed from its own deck top; the challenger wins iff
\* its total is >= the defender's (a tie goes to the challenger); the winner's
\* stack ends in its owner's reserve, the loser's stack leaves play and all of
\* its cards are appended to its owner's discard.
C15_DefendedResolution ==
  [][(/\ Resolving /\ ~challenge.isCylonChallenge
      /\ challenge.defenderInstanceId # NoInstance
      /\ ChallengerFound.zone # "" /\ DefenderFound.zone # "")
       => LET ai == challenge.challengerPlayerIndex
              di == challenge.defenderPlayerIndex
              cstack == FoundStack(players[ai], ChallengerFound)
              dstack == FoundStack(players[di], DefenderFound)
              atkTotal == getCardDef(TopCard(cstack).defId).power + challenge.challengerPowerBuff + Revealed(ai)
              defTotal == getCardDef(TopCard(dstack).defId).power + challenge.defenderPowerBuff + Revealed(di)
              w == IF atkTotal >= defTotal THEN ai ELSE di
              wstack == IF w = ai THEN cstack ELSE dstack
              lstack == IF w = ai THEN dstack ELSE cstack
          IN /\ RevealedOwnTop(ai) /\ RevealedOwnTop(di)
             /\ wstack \in Elems(players'[w].zones.reserve)
             /\ wstack \notin Elems(players'[w].zones.alert)
             /\ lstack \notin Elems(AllStacks(players'[1 - w]))
             /\ Len(AllStacks(players'[1 - w])) = Len(AllStacks(players[1 - w])) - 1
             /\ Len(AllStacks(players'[w])) = Len(AllStacks(players[w]))
             /\ players'[1 - w].discard = AfterReveal(1 - w) \o lstack.cards
             /\ players'[w].discard = AfterReveal(w)
             /\ challenge' = Null]_vars

\* A defended challenge without effects has resolved on a tie (Apollo 2 + 2
\* against William Adama 2 + 2): the challenger won, the defender is in its
\* owner's discard.
C15_Witness ==
  /\ last.action.type = "challengePass" /\ challenge = Null /\ applied = 15
  /\ \E k \in 1..Len(log) : log[k] = "Challenger wins!"
  /\ \E k \in 1..Len(log) : log[k] = "is defeated"
  /\ \E i \in PlayerIdx :
       /\ \E k \in 1..Len(players[i].zones.reserve) :
            TopCard(players[i].zones.reserve[k]).defId = "apollo-ace"
       /\ \E k \in 1..Len(players[1 - i].discard) : players[1 - i].discard[k].defId = "william-adama"

\* The summed cylonThreat of the face-up top cards of a sequence of stacks.
FaceUpThreat(stacks) ==
  SumSeq([k \in 1..Len(stacks) |->
            IF stacks[k].cards[1].faceUp THEN getCardDef(stacks[k].cards[1].defId).cylonThreat ELSE 0])

\* The face-up Cylon threat of both players' alert and reserve zones.
TotalFaceUpThreat ==
  FaceUpThreat(players[0].zones.alert) + FaceUpThreat(players[0].zones.reserve)
    + FaceUpThreat(players[1].zones.alert) + FaceUpThreat(players[1].zones.reserve)

\* The pass being taken is the one that ends the execution phase.
ExecutionEnds ==
  /\ phase = "execution" /\ challenge = Null
  /\ last'.action.type = "pass" /\ ~threw'
  /\ players[1 - last'.player].consecutivePasses > 0

\* C16. Cylon-phase skip: when the execution phase ends with the face-up
\* Cylon threat of both players' alert and reserve zones <= fleetDefenseLevel
\* (equality included), no card leaves a deck, cylonThreats stays empty, the
\* log contains "No Cylon attack this turn." and the state is already in the
\* next turn's ready phase (or gameOver).
C16_CylonSkip ==
  [][(ExecutionEnds /\ TotalFaceUpThreat <= fleetDefenseLevel)
       => /\ \A i \in PlayerIdx : /\ players'[i].deck = players[i].deck
                                  /\ players'[i].discard = players[i].discard
                                  /\ players'[i].hand = players[i].hand
          /\ cylonThreats = <<>> /\ cylonThreats' = <<>>
          /\ \E k \in 1..Len(log') : log'[k] = "No Cylon attack this turn."
          /\ \/ phase' = "ready" /\ turn' = turn + 1
             \/ phase' = "gameOver"]_vars

\* The execution phase has ended with the threat level equal to the fleet
\* defense level, and the next turn's ready phase has begun.
C16_Witness ==
  /\ last.action.type = "pass" /\ phase = "ready" /\ turn = 2
  /\ \E k \in 1..Len(log) : log[k] = "No Cylon attack this turn."
  /\ TotalFaceUpThreat = fleetDefenseLevel /\ TotalFaceUpThreat > 0

\* The playCard being taken plays a singular unit from the hand whose title
\* is the title of the top card of a stack in zone z at index k of that player.
OverlaysOnto(z, k) ==
  LET p == last'.player
      a == last'.action
      def == getCardDef(players[p].hand[a.cardIndex + 1].defId)
  IN /\ def.type \in {"personnel", "ship"} /\ def.title # "" /\ def.subtitle # ""
     /\ k \in 1..Len(players[p].zones[z])
     /\ getCardDef(players[p].zones[z][k].cards[1].defId).title = def.title

\* C17. Overlay: playCard for a singular unit (title and subtitle present)
\* whose title matches the top card of one of the player's alert or reserve
\* stacks puts the new card on top of that stack, whose card count grows by
\* exactly 1, creates no stack, leaves the stack in its zone, sets its
\* exhausted flag to false and changes no other stack.
C17_Overlay ==
  [][(/\ phase = "execution" /\ challenge = Null
      /\ last'.action.type = "playCard" /\ ~threw'
      /\ last'.action.cardIndex \in 0..(Len(players[last'.player].hand) - 1)
      /\ \E z \in {"alert", "reserve"} : \E k \in 1..Len(players[last'.player].zones[z]) : OverlaysOnto(z, k))
       => LET p == last'.player
              card == players[p].hand[last'.action.cardIndex + 1]
          IN /\ \E z \in {"alert", "reserve"} : \E k \in 1..Len(players[last'.player].zones[z]) :
                  /\ OverlaysOnto(z, k)
                  /\ players'[p].zones[z] =
                       [players[p].zones[z] EXCEPT ![k] = [cards |-> <<card>> \o @.cards,
                                                           exhausted |-> FALSE]]
                  /\ \A y \in {"alert", "reserve"} \ {z} : players'[p].zones[y] = players[p].zones[y]
             /\ players'[1 - p].zones = players[1 - p].zones
             /\ \A j \in 1..Len(players'[p].hand) : players'[p].hand[j] # card]_vars

\* A singular unit has been played onto the alert stack of the same title:
\* one alert stack of two cards, the new card on top, and no reserve stack.
C17_Witness ==
  /\ last.action.type = "playCard"
  /\ \E k \in 1..Len(log) : log[k] = "overlays onto existing stack"
  /\ LET z == players[last.player].zones
     IN /\ Len(z.alert) = 1 /\ Len(z.reserve) = 0
        /\ Len(z.alert[1].cards) = 2
        /\ z.alert[1].cards[1].defId = "adama-admiral"
        /\ z.alert[1].cards[2].defId = "william-adama"
        /\ ~z.alert[1].exhausted

\* The quantity (1 + number of supply cards) that player p's stacks in the set
\* ks of resource-stack indices produce of resource type t.
QuantityOf(p, ks, t) ==
  SumSeq([k \in 1..Len(players[p].zones.resourceStacks) |->
            LET st == players[p].zones.resourceStacks[k]
            IN IF k \in ks /\ getStackResourceTypeFromPlayer(st) = t
               THEN 1 + Len(st.supplyCards) ELSE 0])

\* The indices of player p's non-exhausted resource stacks.
Fresh(p) ==
  {k \in 1..Len(players[p].zones.resourceStacks) : ~players[p].zones.resourceStacks[k].exhausted}

\* In the execution phase, with no challenge open, the active player is
\* offered playCard for a hand index exactly when every type of the card's
\* cost is covered by the non-exhausted stacks of that type.
AffordableOffered ==
  (phase = "execution" /\ challenge = Null) =>
    LET p == activePlayerIndex
        offered == getValidActions(State, p)
    IN \A i \in 0..(Len(players[p].hand) - 1) :
         (\E n \in 1..Len(offered) : /\ offered[n].type = "playCard"
                                     /\ offered[n].selectableCardIndices = <<i>>)
           <=> \A t \in ResourceTypes :
                 QuantityOf(p, Fresh(p), t) >= getCardDef(players[p].hand[i + 1].defId).cost[t]

\* An offered playCard exhausts, for each type of the cost, non-exhausted
\* stacks of that type that cover the amount, and no stack of another type.
PaymentCovers ==
  (/\ phase = "execution" /\ challenge = Null
   /\ last'.action.type = "playCard" /\ last'.legal /\ ~threw')
    => LET p == last'.player
           cost == getCardDef(players[p].hand[last'.action.cardIndex + 1].defId).cost
           before == players[p].zones.resourceStacks
           after == players'[p].zones.resourceStacks
           paid == {k \in Fresh(p) : after[k].exhausted}
       IN /\ Len(after) = Len(before)
          /\ \A k \in 1..Len(before) : before[k].exhausted => after[k].exhausted
          /\ \A t \in ResourceTypes :
               IF cost[t] > 0 THEN QuantityOf(p, paid, t) >= cost[t]
               ELSE \A k \in paid : getStackResourceTypeFromPlayer(before[k]) # t
          /\ \A k \in paid : getStackResourceTypeFromPlayer(before[k]) \in ResourceTypes
          /\ players'[1 - p].zones.resourceStacks = players[1 - p].zones.resourceStacks

C19_StaleNoOp ==
  [][(last'.player \in PlayerIdx /\ last'.action \in StaleActions(State, last'.player))
       => /\ UNCHANGED game
          /\ log' = <<>>
          /\ ~threw']_vars

\* Logs the input state of a call may carry: the entries of the last call,
\* alone and after the entry of createGame.
InputLogs == {log, <<"Game created.">> \o log}

\* The calls made on the current state: every legal action and, for every
\* action type, the action that carries no reference.
CallsOn(i) == LegalActions(State, i) \cup {Act(type) : type \in ActionTypes}

\* C20. Log is append-only: for every applyAction call the resulting state's
\* log is the input state's log followed by exactly the entries of the
\* returned log list, in their order; no earlier entry is removed, reordered
\* or changed.
C20_LogAppendOnly ==
  \A i \in PlayerIdx : \A a \in CallsOn(i) : \A L \in InputLogs :
    \A r \in applyAction([State EXCEPT !.stateLog = L], i, a) :
      ~r.err => /\ r.stateLog = L \o r.log
                /\ SubSeq(r.stateLog, 1, Len(L)) = L

\* A call on a state whose log is not empty returns at least two entries,
\* which follow the earlier ones in the resulting log.
C20_Witness ==
  /\ applied > 0 /\ log # <<>>
  /\ \E i \in PlayerIdx : \E a \in LegalActions(State, i) :
       \E r \in applyAction(State, i, a) :
         /\ ~r.err /\ Len(r.log) >= 2
         /\ Len(r.stateLog) = Len(log) + Len(r.log)
         /\ r.stateLog[Len(log) + 1] = r.log[1]

\* The card names of the registry under trial.
RegistryNames == {getCardName(registry.cards[k]) : k \in 1..Len(registry.cards)}

\* The ids of the deck under trial that resolve to a card of this name.
CopiesInDeck(name) ==
  {k \in 1..Len(deck.submission.deckCardIds) :
     \E c \in 1..Len(registry.cards) : /\ registry.cards[c].id = deck.submission.deckCardIds[k]
                                       /\ getCardName(registry.cards[c]) = name}

\* The deck under trial is legal: a base of the registry, at least 60 ids,
\* every id that of a registry card, no name counted more than 4 times.
DeckLegal ==
  /\ deck.submission.baseId \in registry.bases
  /\ Len(deck.submission.deckCardIds) >= MinDeckSize
  /\ \A k \in 1..Len(deck.submission.deckCardIds) :
       \E c \in 1..Len(registry.cards) : registry.cards[c].id = deck.submission.deckCardIds[k]
  /\ \A name \in RegistryNames : Cardinality(CopiesInDeck(name)) <= MaxCopies

ReportedErrors == {deck.result.errors[k] : k \in 1..Len(deck.result.errors)}

\* C22: validateDeck reports every violation. For a submitted deck, the errors
\* list holds an entry for the unknown base, an entry for a deck of fewer than
\* 60 ids, an entry for each unknown card id, and an entry for each card name
\* with more than 4 copies, also when several of them occur together.
C22_AllViolations ==
  deck.source = "human" =>
    /\ deck.submission.baseId \notin registry.bases
         => DeckError("base", <<deck.submission.baseId>>) \in ReportedErrors
    /\ Len(deck.submission.deckCardIds) < MinDeckSize
         => DeckError("size", <<>>) \in ReportedErrors
    /\ \A k \in 1..Len(deck.submission.deckCardIds) :
         (\A c \in 1..Len(registry.cards) :
            registry.cards[c].id # deck.submission.deckCardIds[k])
         => DeckError("card", <<deck.submission.deckCardIds[k]>>) \in ReportedErrors
    /\ \A name \in RegistryNames :
         Cardinality(CopiesInDeck(name)) > MaxCopies
         => DeckError("copies", name) \in ReportedErrors

\* C23: validateDeck legality. A submitted deck is valid if and only if its
\* base is in the registry, it has at least 60 ids, every id is a card of the
\* registry, and no card name is held more than 4 times, the copies counted per
\* name across card ids and over the known ids only.
C23_Legality == deck.source = "human" => (deck.result.valid <=> DeckLegal)

\* A submitted deck of 60 ids that is valid, from a registry where two card ids
\* share a name.
C23_Witness ==
  /\ deck.source = "human" /\ deck.result.valid
  /\ Len(deck.submission.deckCardIds) = MinDeckSize
  /\ Cardinality(RegistryNames) < Len(registry.cards)

\* The Cylon phase with threats present and no challenge open.
CylonOpen == phase = "cylon" /\ cylonThreats # <<>> /\ challenge = Null

\* This step is a passCylon that returned.
PassedCylon == applied' = applied + 1 /\ ~threw' /\ last'.action.type = "passCylon"

\* This step ends the Cylon phase: the next turn's ready phase begins.
CylonEnds == phase = "cylon" /\ applied' = applied + 1 /\ ~threw' /\ phase' = "ready"

\* The card of every threat of the state left is in its owner's discard.
ThreatsDiscarded ==
  \A k \in 1..Len(cylonThreats) :
    \E j \in 1..Len(players'[cylonThreats[k].ownerIndex].discard) :
      players'[cylonThreats[k].ownerIndex].discard[j].instanceId
        = cylonThreats[k].card.instanceId

\* One step of the Cylon phase, as the rules of passing and ending have it.
CylonPassing ==
  /\ (CylonOpen /\ PassedCylon)
       => /\ players'[last'.player].influence = players[last'.player].influence - 1
          /\ phase' # "gameOver"
               => (phase' = "ready" <=> players[1 - last'.player].consecutivePasses > 0)
  /\ CylonEnds
       => /\ \/ CylonOpen /\ PassedCylon
             \/ /\ challenge # Null /\ challenge.isCylonChallenge
                /\ Len(cylonThreats) = 1
                /\ players'[challenge.challengerPlayerIndex].influence
                     = players[challenge.challengerPlayerIndex].influence + CylonGain
          /\ cylonThreats' = <<>>
          /\ ThreatsDiscarded

ChallengerAt == findUnitInAnyZone(players[challenge.challengerPlayerIndex], challenge.challengerInstanceId)
ChallengerStack == FoundStack(players[challenge.challengerPlayerIndex], ChallengerAt)

\* This step resolves a Cylon challenge whose challenger is in play.
CylonResolves ==
  /\ challenge # Null /\ challenge.isCylonChallenge /\ challenge' = Null
  /\ applied' = applied + 1 /\ ~threw'
  /\ ChallengerAt.zone # ""

\* The mystic value player i reveals in this step: of the top card of the deck;
\* of the card that opens the new discard pile when the deck was empty and the
\* discard pile was shuffled into it; 0 when both were empty.
MysticRevealedBy(i) ==
  IF Len(players[i].deck) > 0 THEN getCardDef(Head(players[i].deck).defId).mysticValue
  ELSE IF Len(players[i].discard) > 0 THEN getCardDef(players'[i].discard[1].defId).mysticValue
  ELSE 0

\* The threat under challenge and the two totals.
ThreatChallenged == cylonThreats[challenge.cylonThreatIndex + 1]
CylonChallengerTotal ==
  getUnitPower(ChallengerStack) + challenge.challengerPowerBuff
    + MysticRevealedBy(challenge.challengerPlayerIndex)
CylonThreatTotal == ThreatChallenged.power + MysticRevealedBy(challenge.cylonPlayerIndex)

\* The ids of the cards in a sequence of cards.
IdsOf(cards) == {cards[k].instanceId : k \in 1..Len(cards)}

\* Where the challenger's stack is in the state reached.
ChallengerAfter ==
  findUnitInAnyZone(players'[challenge.challengerPlayerIndex], challenge.challengerInstanceId)

CylonOutcome ==
  CylonResolves =>
    LET ai == challenge.challengerPlayerIndex
        threat == ThreatChallenged
    IN /\ \A i \in PlayerIdx : players'[i].consecutivePasses = 0
       /\ IF CylonChallengerTotal >= CylonThreatTotal
          THEN /\ players'[ai].influence = players[ai].influence + CylonGain
               /\ players'[1 - ai].influence = players[1 - ai].influence
               /\ threat.card.instanceId
                    \notin {cylonThreats'[k].card.instanceId : k \in 1..Len(cylonThreats')}
               /\ Len(cylonThreats') < Len(cylonThreats)
               /\ threat.card.instanceId \in IdsOf(players'[threat.ownerIndex].discard)
               \* committed: in reserve, unless the ready phase this step began readied it
               /\ ChallengerAfter.zone = IF phase' = "ready" THEN "alert" ELSE "reserve"
               /\ FoundStack(players'[ai], ChallengerAfter).cards = ChallengerStack.cards
          ELSE /\ \A i \in PlayerIdx : players'[i].influence = players[i].influence
               /\ ChallengerAfter.zone = ""
               /\ IdsOf(ChallengerStack.cards) \subseteq IdsOf(players'[ai].discard)
               /\ cylonThreats' = cylonThreats
               /\ phase' = "cylon"

FreshOnly(p) ==
  [players[p] EXCEPT !.zones.resourceStacks = SelectSeq(@, LAMBDA st : ~st.exhausted)]
AllRestored(p) == [players[p] EXCEPT !.zones.resourceStacks = Restore(@)]

\* canAfford gives the same answer with the exhausted stacks taken away.
SpentNotCounted ==
  \A p \in PlayerIdx : \A id \in DOMAIN cardRegistry :
    canAfford(players[p], cardRegistry[id]) <=> canAfford(FreshOnly(p), cardRegistry[id])

\* This step begins a ready phase: the restore step runs.
ReadyPhaseBegins == turn' = turn + 1 /\ phase' = "ready" /\ readyStep' = 3

\* An exhausted resource stack stays exhausted, in its place, unless this
\* step begins the next ready phase.
SpentStaysSpent ==
  \A p \in PlayerIdx :
    LET before == players[p].zones.resourceStacks
        after == players'[p].zones.resourceStacks
    IN \A k \in 1..Len(before) :
         (before[k].exhausted /\ ~ReadyPhaseBegins)
           => /\ k <= Len(after) /\ after[k].exhausted
              /\ after[k].topCard = before[k].topCard

\* A card played from the hand is paid for by stacks that were not exhausted:
\* for each type of its cost, the stacks this step exhausts cover the amount.
SpentNotUsed ==
  (/\ last'.action.type \in {"playCard", "playEventInChallenge"}
   /\ applied' = applied + 1 /\ ~threw')
    => LET p == last'.player
           cost == getCardDef(players[p].hand[last'.action.cardIndex + 1].defId).cost
           paid == {k \in Fresh(p) : players'[p].zones.resourceStacks[k].exhausted}
       IN \A t \in ResourceTypes : QuantityOf(p, paid, t) >= cost[t]

\* C28: a resource stack is spent at most once per turn. An exhausted resource
\* stack is not counted by canAfford and not used by payment, and no action
\* clears the exhausted flag of a resource stack except the restore step of a
\* beginning ready phase.
C28_SpentOncePerTurn == []SpentNotCounted /\ [][SpentStaysSpent /\ SpentNotUsed]_vars

\* A player holds a card that the resource stacks would pay for if the
\* exhausted ones counted, and that canAfford refuses; an action has been
\* applied since a stack was exhausted.
C28_Witness ==
  \E p \in PlayerIdx : \E c \in 1..Len(players[p].hand) :
    /\ ~canAfford(players[p], getCardDef(players[p].hand[c].defId))
    /\ canAfford(AllRestored(p), getCardDef(players[p].hand[c].defId))
    /\ last.action.type \notin {"playAbility", "playCard"} /\ ~threw

\* The card lists of player p's unit and mission stacks, before and after the step.
StackCards(p) == {st.cards : st \in Elems(AllStacks(players[p]))}
StackCardsAfter(p) == {st.cards : st \in Elems(AllStacks(players'[p]))}

\* What a step that begins a ready phase leaves behind.
Readied ==
  (ReadyPhaseBegins /\ applied' = applied + 1 /\ ~threw') =>
    \A p \in PlayerIdx :
      LET zones == players'[p].zones IN
      /\ \A k \in 1..Len(zones.reserve) : ~TopCard(zones.reserve[k]).faceUp
      /\ \A st \in Elems(AllStacks(players[p])) :
           TopCard(st).faceUp => \E k \in 1..Len(zones.alert) : zones.alert[k].cards = st.cards
      /\ StackCardsAfter(p) = StackCards(p)
      /\ Len(AllStacks(players'[p])) = Len(AllStacks(players[p]))
      /\ \A k \in 1..Len(zones.resourceStacks) : ~zones.resourceStacks[k].exhausted
      /\ \A k \in 1..Len(zones.alert) : ~zones.alert[k].exhausted
      /\ \A k \in 1..Len(zones.reserve) : ~zones.reserve[k].exhausted

\* C29: readying. In the state an action that starts a ready phase results in,
\* every unit or mission stack with a face-up top card is in its owner's alert
\* zone and none is left in the reserve, the stacks hold the cards they held,
\* and every resource, alert and reserve stack has exhausted = false.
C29_Readying == [][Readied]_vars

\* A ready phase has just begun in which a stack played to the reserve the
\* turn before stands in the alert zone, next to a restored base.
C29_Witness ==
  /\ phase = "ready" /\ readyStep = 3 /\ turn = 2 /\ ~threw
  /\ last.action.type \in {"pass", "passCylon", "challengePass"}
  /\ \E p \in PlayerIdx : Len(players[p].zones.alert) > 0

\* The state waits for the draw step: step 3 of a ready phase.
AtDrawStep == phase = "ready" /\ readyStep = 3

\* The number of cards the draw step gives player p.
DrawnBy(p) ==
  IF Len(players[p].deck) + Len(players[p].discard) < DrawPerTurn
  THEN Len(players[p].deck) + Len(players[p].discard)
  ELSE DrawPerTurn

\* A drawCards step: taken at the draw step, it lengthens every hand by the
\* cards drawn, taken from the player's deck and discard pile, and leaves step 4
\* with the first player active and nobody having played a resource.
DrawStep ==
  (last'.action.type = "drawCards" /\ applied' = applied + 1 /\ ~threw') =>
    /\ AtDrawStep
    /\ readyStep' = 4 /\ phase' = "ready" /\ turn' = turn
    /\ activePlayerIndex' = firstPlayerIndex'
    /\ \A p \in PlayerIdx :
         /\ ~players'[p].hasPlayedResource
         /\ Len(players'[p].hand) = Len(players[p].hand) + DrawnBy(p)
         /\ SubSeq(players'[p].hand, 1, Len(players[p].hand)) = players[p].hand
         /\ IdsOf(players'[p].hand) \ IdsOf(players[p].hand)
              \subseteq IdsOf(players[p].deck) \cup IdsOf(players[p].discard)

\* The draw step is entered only by a beginning ready phase, and only a
\* drawCards leaves it: within a turn it is not reached a second time.
DrawStepOncePerTurn ==
  /\ (~AtDrawStep /\ AtDrawStep') => ReadyPhaseBegins
  /\ (AtDrawStep /\ ~AtDrawStep') => last'.action.type = "drawCards"
  /\ (AtDrawStep /\ AtDrawStep') => turn' = turn \/ ReadyPhaseBegins

\* C30: the draw step is a single trigger. The first drawCards of a turn's
\* ready phase moves 2 cards, or as many as deck plus discard hold, into every
\* player's hand and sets readyStep to 4 with the first player active and both
\* hasPlayedResource flags false; under legal actions no second draw happens in
\* the same turn.
C30_SingleDraw == [][DrawStep /\ DrawStepOncePerTurn]_vars

\* The draw of the second turn has run: each hand got its cards once.
C30_Witness ==
  /\ last.action.type = "drawCards" /\ ~threw
  /\ turn = 2 /\ phase = "ready" /\ readyStep = 4

\* The number of places of the game that hold a CardInstance of this id.
HeldBefore(id) ==
  Cardinality({k \in 1..CardCount(players, cylonThreats) :
                 AllCards(players, cylonThreats)[k].instanceId = id})
HeldAfter(id) ==
  Cardinality({k \in 1..CardCount(players', cylonThreats') :
                 AllCards(players', cylonThreats')[k].instanceId = id})

\* The instances an applyAction call creates take the ids after the counter;
\* one that the call puts into the game has an id no instance held before.
CreatedIdsNew ==
  (applied' = applied + 1 /\ ~threw' /\ instanceCounter' > instanceCounter) =>
    \A id \in (instanceCounter + 1)..instanceCounter' :
      HeldAfter(id) > HeldBefore(id) => HeldBefore(id) = 0

\* C25: instance ids are unique. The instances made by createGame have
\* different ids, and every instance created after game start (the placeholder
\* of a mystic value revealed from an empty deck and discard) gets an id no
\* instance of the game holds, also when createGame is called for another game
\* in between.
C25_UniqueInstanceIds ==
  /\ [](applied = 0 =>
          \A id \in 1..CardCount(players, cylonThreats) : HeldBefore(id) = 1)
  /\ [][CreatedIdsNew]_vars

\* C24: for any interleaving of the client's messages, of continue timeouts
\* and of loop resumptions, at most one processAITurns loop is in progress for
\* the room at any time, and no action of the human is applied to the room's
\* game state between the start and the end of a loop.
C24_Serialized == LoopsInProgress <= 1 /\ ~room.actionInLoop

\* The state waits for a card to the resource area: step 4 of a ready phase.
AtResourceStep == phase = "ready" /\ readyStep = 4

\* At step 4 the active player has not acted yet: it is the first player
\* while nobody has acted, and the other player once the first has.
ResourceTurnOrder ==
  AtResourceStep =>
    /\ ~players[activePlayerIndex].hasPlayedResource
    /\ IF players[1 - activePlayerIndex].hasPlayedResource
       THEN activePlayerIndex # firstPlayerIndex
       ELSE activePlayerIndex = firstPlayerIndex

\* Player i after putting the card at hand index c into the resource area,
\* under stack k as a face-down supply card or as a new stack.
AfterResourcePlay(i, c, asSupply, k) ==
  LET p == players[i]
      card == p.hand[c + 1]
      stacks == p.zones.resourceStacks
  IN [p EXCEPT !.hand = RemoveAt(@, c + 1),
               !.hasPlayedResource = TRUE,
               !.zones.resourceStacks =
                  IF asSupply
                  THEN [stacks EXCEPT ![k + 1].supplyCards = Append(@, [card EXCEPT !.faceUp = FALSE])]
                  ELSE Append(stacks, [topCard |-> card, supplyCards |-> <<>>, exhausted |-> FALSE])]

\* The action taken at step 4 is the active player's single playToResource or
\* passResource; the other player's turn follows, or step 5 if the other
\* player has acted before.
ResourceStepAct ==
  (AtResourceStep /\ applied' = applied + 1) =>
    LET i == activePlayerIndex
        a == last'.action
    IN /\ ~threw' /\ last'.player = i
       /\ a.type \in {"playToResource", "passResource"}
       /\ players'[1 - i] = players[1 - i]
       /\ a.type = "passResource" =>
            players'[i] = [players[i] EXCEPT !.hasPlayedResource = TRUE]
       /\ a.type = "playToResource" =>
            /\ a.cardIndex \in 0..(Len(players[i].hand) - 1)
            /\ a.asSupply => a.targetStackIndex \in 0..(Len(players[i].zones.resourceStacks) - 1)
            /\ players'[i] = AfterResourcePlay(i, a.cardIndex, a.asSupply, a.targetStackIndex)
       /\ phase' = "ready" /\ turn' = turn
       /\ IF players[1 - i].hasPlayedResource
          THEN readyStep' = 5
          ELSE readyStep' = 4 /\ activePlayerIndex' = 1 - i

\* Step 5 is entered from step 4 only, with both players having acted.
ReorderAfterBoth ==
  (readyStep' = 5 /\ readyStep # 5) =>
    /\ AtResourceStep
    /\ \A p \in PlayerIdx : players'[p].hasPlayedResource

\* C31: the resource step protocol. In ready step 4 under legal actions the
\* first player acts first and then the other player; each performs exactly one
\* playToResource (one card from hand becomes a new resource stack or a
\* face-down supply card under one of the player's stacks) or one
\* passResource; readyStep becomes 5 exactly after both have acted.
C31_ResourceStep == []ResourceTurnOrder /\ [][ResourceStepAct /\ ReorderAfterBoth]_vars

\* Step 5 was reached by the second player's supply card.
C31_Witness ==
  /\ phase = "ready" /\ readyStep = 5 /\ ~threw
  /\ last.action.type = "playToResource" /\ last.action.asSupply
  /\ last.player # firstPlayerIndex

\* checkVictory has been applied to the state.
VictoryChecked == last.action.type = "checkVictory"

\* Player p has the influence that wins, that loses.
Wins(p) == players[p].influence >= WinInfluence
Loses(p) == players[p].influence <= LoseInfluence

\* C32: the order of the victory check. checkVictory tests influence >= 20
\* for player 0 then player 1 before it tests influence <= 0 for player 0 then
\* player 1: if both players are >= 20 the winner is player 0, if one player is
\* >= 20 while any player is <= 0 the winner is the >= 20 player, and if both
\* players are <= 0 (none >= 20) the winner is player 1.
C32_VictoryOrder ==
  VictoryChecked =>
    /\ (Wins(0) /\ Wins(1)) => winner = 0
    /\ \A p \in PlayerIdx :
         (Wins(p) /\ ~Wins(1 - p) /\ (Loses(0) \/ Loses(1))) => winner = p
    /\ (Loses(0) /\ Loses(1)) => winner = 1
    /\ (Wins(0) \/ Wins(1) \/ Loses(0) \/ Loses(1)) => phase = "gameOver"
    /\ ~(Wins(0) \/ Wins(1) \/ Loses(0) \/ Loses(1)) => phase = "execution" /\ winner = NoWinner

\* The check ran with player 1 at the win and player 0 at the loss.
C32_Witness == VictoryChecked /\ Wins(1) /\ Loses(0) /\ winner = 1 /\ phase = "gameOver"

\* The instance ids of the cards of the threats listed.
ThreatIds(threats) == {threats[k].card.instanceId : k \in 1..Len(threats)}

\* A threat that a call takes off the list has its card in its owner's discard.
ThreatsLeaveToDiscard ==
  (applied' = applied + 1 /\ ~threw') =>
    \A k \in 1..Len(cylonThreats) :
      cylonThreats[k].card.instanceId \notin ThreatIds(cylonThreats')
        => cylonThreats[k].card.instanceId
             \in IdsOf(players'[cylonThreats[k].ownerIndex].discard)

\* C33: Cylon threats are ephemeral. In every reachable state whose phase is
\* not cylon (setup, ready, execution or gameOver) cylonThreats is empty, and
\* every card that was a threat is in its owner's discard.
C33_ThreatsEphemeral ==
  [](phase # "cylon" => cylonThreats = <<>>) /\ [][ThreatsLeaveToDiscard]_vars

\* It is player i's turn in the effects round of a challenge.
EffectsTurn(i) == challenge # Null /\ challenge.step = 2 /\ activePlayerIndex = i

\* The hand indices of the events offered to player i, in hand order.
OfferedEvents(i) ==
  LET es == SelectSeq(getValidActions(State, i), LAMBDA e : e.type = "playEventInChallenge")
  IN Flatten([n \in 1..Len(es) |-> es[n].selectableCardIndices])

\* Those of them whose text contains "power" or "influence".
MatchingEvents(i) ==
  SelectSeq(OfferedEvents(i), LAMBDA c : TextOnPowerOrInfluence(players[i].hand[c + 1].defId))

\* C34: the AI's event choice in a challenge. During a challenge effects
\* round makeAIDecision returns playEventInChallenge for the first (lowest hand
\* index) affordable event of the hand whose abilityText contains "power" or
\* "influence", and returns challengePass only when none of the offered events
\* matches, also when the first affordable event does not match but a later
\* one does.
C34_EventChoice ==
  \A i \in PlayerIdx :
    EffectsTurn(i) =>
      makeAIDecision(State, i, getValidActions(State, i))
        = IF MatchingEvents(i) # <<>>
          THEN [Act("playEventInChallenge") EXCEPT !.cardIndex = MatchingEvents(i)[1]]
          ELSE Act("challengePass")

\* Player i is offered an action.
Offered(i) == getValidActions(State, i) # <<>>

\* Every player began the game with a card in hand.
DealtCards == \A p \in PlayerIdx : phase = "setup" /\ ~players[p].hasMulliganed
                                     => Len(players[p].hand) > 0

\* C35: no deadlock. In every state reachable from createGame (with non-empty
\* starting hands) by legal actions, if phase is not gameOver then at least
\* one player has a non-empty getValidActions list: in setup, each ready step,
\* execution, cylon, waiting-for-defender and challenge effects states.
C35_NoDeadlock == (DealtCards /\ phase # "gameOver") => \E i \in PlayerIdx : Offered(i)

\* A Cylon challenge is in its effects round: the challenger alone is offered
\* actions.
C35_Witness ==
  /\ phase = "cylon" /\ challenge # Null /\ challenge.isCylonChallenge /\ challenge.step = 2
  /\ Offered(activePlayerIndex) /\ ~Offered(1 - activePlayerIndex)

\* The types of the actions offered to player i.
OfferedTypes(i) == {getValidActions(State, i)[k].type : k \in 1..Len(getValidActions(State, i))}

\* A call of applyAction for a player with an action of a type that player
\* is not offered leaves the game state as it was.
UnofferedIgnored ==
  (applied' = applied + 1 /\ last'.action.type \notin OfferedTypes(last'.player))
    => UNCHANGED game

\* C36: turn enforcement. If getValidActions(S, P) is empty (it is not P's
\* turn) or does not contain the type of action a, then applyAction(S, P, a)
\* leaves the game state unchanged; in particular the orchestrator cannot
\* advance the game with an out-of-turn or out-of-phase action submitted by the
\* human player.
C36_TurnEnforcement == [][UnofferedIgnored]_vars

\* This step resolves an undefended challenge between the players.
UndefendedResolved ==
  /\ challenge # Null /\ ~challenge.isCylonChallenge
  /\ ~challenge.waitingForDefender /\ challenge.defenderInstanceId = NoInstance
  /\ applied' = applied + 1 /\ ~threw' /\ challenge' = Null
  /\ findUnitInAnyZone(players[challenge.challengerPlayerIndex],
                       challenge.challengerInstanceId).zone # ""

\* C37: undefended damage is never negative. Resolving an undefended
\* challenge never increases the defending player's influence: the influence
\* removed is >= 0 for every combination of challenger power and accumulated
\* challengerPowerBuff, including negative buffs (such as the -2 of
\* Outmaneuvered) applied to the challenger during the effects round.
C37_DamageNotNegative ==
  [][UndefendedResolved =>
       players'[challenge.defenderPlayerIndex].influence
         <= players[challenge.defenderPlayerIndex].influence]_vars

\* The values of a list, Absent/NoInstance never among them.
Carried(a) ==
  [card |-> {a.cardIndex} \ {Absent},
   inst |-> {a.sourceInstanceId, a.targetInstanceId, a.missionInstanceId,
             a.challengerInstanceId, a.defenderInstanceId} \ {NoInstance},
   stack |-> {a.targetStackIndex} \ {Absent},
   threat |-> {a.threatIndex} \ {Absent}]

\* Action a has the type of an entry of the list, which offers every index
\* and id that a carries.
ListedIn(a, validActions) ==
  \E n \in 1..Len(validActions) :
    LET e == validActions[n] IN
      /\ e.type = a.type
      /\ Carried(a).card \subseteq Elems(e.selectableCardIndices)
      /\ Carried(a).inst \subseteq Elems(e.selectableInstanceIds)
      /\ Carried(a).stack \subseteq Elems(e.selectableStackIndices)
      /\ Carried(a).threat \subseteq Elems(e.selectableThreatIndices)

AIDecision == makeAIDecision(State, AI_PLAYER_INDEX, getValidActions(State, AI_PLAYER_INDEX))

\* C38: AI decisions are legal. In every reachable state in which the AI
\* player's getValidActions list is non-empty, the action returned by
\* makeAIDecision has a type that occurs in that list, and any cardIndex,
\* instance id, stack index or threat index it carries is among the
\* selectable values of a list entry of that type.
C38_AIDecisionLegal ==
  getValidActions(State, AI_PLAYER_INDEX) # <<>>
    => ListedIn(AIDecision, getValidActions(State, AI_PLAYER_INDEX))

\* The AI has several entries to choose from and defends with a unit.
C38_Witness ==
  /\ Len(getValidActions(State, AI_PLAYER_INDEX)) > 1
  /\ AIDecision.type = "defend" /\ AIDecision.defenderInstanceId # NoInstance

LoopFinished ==
  /\ room.active /\ ~room'.active
  /\ room'.waiting = room.waiting
  /\ applied' = applied

\* C40: AI loop hand-off. Whenever processAITurns finishes for a room without
\* an engine error and without reaching the 100-iteration cap, aiProcessing
\* is false and either the game phase is gameOver or the human player's
\* getValidActions list is non-empty; the loop never stops in a state where
\* the AI still has to act.
C40_HandOff ==
  [][LoopFinished =>
       /\ ~room'.aiProcessing
       /\ \/ phase' = "gameOver"
          \/ getValidActions(State', HUMAN_PLAYER_INDEX) # <<>>]_vars

====
